---- MODULE Spec2Model ----
(***************************************************************************)
(* EchoChat frontend: the capture session of App.tsx (microphone ->        *)
(* resample -> frame -> encode -> WebSocket), its connection status state  *)
(* machine, the inbound message interpreter, and the audio utilities.      *)
(*                                                                         *)
(* Conventions.                                                            *)
(*  - A JavaScript number that may be fractional is a pair <<n, d>> with   *)
(*    d > 0 in lowest terms (Float32 rounding is not modelled).            *)
(*  - A JavaScript string is a sequence of one-character strings.          *)
(*  - Every startRecording call creates one session record k; the stream,  *)
(*    AudioContext, analyser, ScriptProcessor and WebSocket it creates are *)
(*    the fields of sess[k], and a ref holds the number k of the session   *)
(*    whose object it points to (NULL = 0 for null).                       *)
(*  - An action is one browser task: a whole event handler, with React     *)
(*    state updates applied in the order they were queued.                 *)
(***************************************************************************)
EXTENDS Integers, Sequences, FiniteSets, TLC

\* ---------------------------------------------------------------- bounds
MaxSessions == 2       \* startRecording calls in one run
MaxChunks == 1         \* audio callbacks in one run of Spec
MaxMessages == 2       \* inbound socket messages in one run
AudioChunks == 3       \* audio callbacks in one run of SpecAudio

\* ------------------------------------------------------ program constants
BROWSER_BUFFER_SIZE == 512
TARGET_SAMPLE_RATE == 16000

NULL == 0

DISCONNECTED == "disconnected"
CONNECTING == "connecting"
CONNECTED == "connected"
ERROR == "error"
ConnectionStatus == {DISCONNECTED, CONNECTING, CONNECTED, ERROR}

ProcessStatus == {"idle", "transcribing", "processing"}

\* ------------------------------------------------------------- numbers
RECURSIVE Gcd(_, _)
Gcd(a, b) == IF b = 0 THEN a ELSE Gcd(b, a % b)

Abs(x) == IF x < 0 THEN -x ELSE x

\* the number n/d in lowest terms, d > 0
Num(n, d) ==
  LET g == Gcd(Abs(n), Abs(d))
      sgn == IF d < 0 THEN -1 ELSE 1
  IN  <<sgn * (n \div g), sgn * (d \div g)>>

Whole(n) == <<n, 1>>
NumAdd(x, y) == Num(x[1] * y[2] + y[1] * x[2], x[2] * y[2])
NumMul(x, y) == Num(x[1] * y[1], x[2] * y[2])
NumDivInt(x, k) == Num(x[1], x[2] * k)
NumLess(x, y) == x[1] * y[2] < y[1] * x[2]
NumLeq(x, y) == x[1] * y[2] <= y[1] * x[2]
\* Math.floor
Floor(x) == x[1] \div x[2]
\* truncation toward zero (ToIntegerOrInfinity, as slice and setInt16 apply it)
Trunc(x) == IF x[1] >= 0 THEN x[1] \div x[2] ELSE -((-x[1]) \div x[2])
\* Math.round: floor(x + 1/2)
Round(x) == (2 * x[1] + x[2]) \div (2 * x[2])

\* ------------------------------------------------------------- config
\* DEFAULT_CONFIG (silenceThreshold 0.01 = 1/100)
DefaultUrl == <<"w", "s", ":", "/", "/", "l", "o", "c", "a", "l", "h", "o", "s", "t", ":", "8", "7", "6", "5">>

DEFAULT_CONFIG ==
  [wsUrl |-> DefaultUrl,
   sampleRate |-> 16000,
   frameDurationMs |-> Whole(32),
   pauseThreshold |-> 500,
   silenceThreshold |-> Num(1, 100)]

\* ------------------------------------------------------- audio utilities
\* a typed array or Array of n elements, as a sequence
ArrayOf(f, n) == SubSeq(f, 1, n)

\* sum of f[lo..hi], by halving (the recursion stays shallow on long buffers)
RECURSIVE SumRange(_, _, _)
SumRange(f, lo, hi) ==
  IF lo > hi THEN Whole(0)
  ELSE IF lo = hi THEN f[lo]
  ELSE LET mid == (lo + hi) \div 2
       IN  NumAdd(SumRange(f, lo, mid), SumRange(f, mid + 1, hi))

\* downsampleBuffer with the rate test as >= and no branch for equal rates
\* (sensitivity of C24)
downsampleBufferThrowsOnEqual(buffer, inputSampleRate, outputSampleRate) ==
  IF outputSampleRate >= inputSampleRate THEN [threw |-> TRUE, result |-> <<>>]
  ELSE
    LET sampleRateRatio == Num(inputSampleRate, outputSampleRate)
        newLength == Round(NumMul(Whole(Len(buffer)), Num(outputSampleRate, inputSampleRate)))
        Out(i) ==
          LET startOffset == Floor(NumMul(Whole(i), sampleRateRatio))
              endOffset == Floor(NumMul(Whole(i + 1), sampleRateRatio))
              last == IF endOffset < Len(buffer) THEN endOffset ELSE Len(buffer)
              count == last - startOffset
          IN  IF count > 0
              THEN NumDivInt(SumRange(buffer, startOffset + 1, last), count)
              ELSE Whole(0)
    IN  [threw |-> FALSE, result |-> ArrayOf([i \in 1..newLength |-> Out(i - 1)], newLength)]

\* downsampleBuffer without the test for upsampling (sensitivity of C25)
downsampleBufferNoThrow(buffer, inputSampleRate, outputSampleRate) ==
  IF outputSampleRate = inputSampleRate THEN [threw |-> FALSE, result |-> buffer]
  ELSE
    LET sampleRateRatio == Num(inputSampleRate, outputSampleRate)
        newLength == Round(NumMul(Whole(Len(buffer)), Num(outputSampleRate, inputSampleRate)))
        Out(i) ==
          LET startOffset == Floor(NumMul(Whole(i), sampleRateRatio))
              endOffset == Floor(NumMul(Whole(i + 1), sampleRateRatio))
              last == IF endOffset < Len(buffer) THEN endOffset ELSE Len(buffer)
              count == last - startOffset
          IN  IF count > 0
              THEN NumDivInt(SumRange(buffer, startOffset + 1, last), count)
              ELSE Whole(0)
    IN  [threw |-> FALSE, result |-> ArrayOf([i \in 1..newLength |-> Out(i - 1)], newLength)]

\* downsampleBuffer with the output length floored, not rounded (sensitivity of C26)
downsampleBufferFloorLength(buffer, inputSampleRate, outputSampleRate) ==
  IF outputSampleRate = inputSampleRate THEN [threw |-> FALSE, result |-> buffer]
  ELSE IF outputSampleRate > inputSampleRate THEN [threw |-> TRUE, result |-> <<>>]
  ELSE
    LET sampleRateRatio == Num(inputSampleRate, outputSampleRate)
        newLength == Floor(NumMul(Whole(Len(buffer)), Num(outputSampleRate, inputSampleRate)))
        Out(i) ==
          LET startOffset == Floor(NumMul(Whole(i), sampleRateRatio))
              endOffset == Floor(NumMul(Whole(i + 1), sampleRateRatio))
              last == IF endOffset < Len(buffer) THEN endOffset ELSE Len(buffer)
              count == last - startOffset
          IN  IF count > 0
              THEN NumDivInt(SumRange(buffer, startOffset + 1, last), count)
              ELSE Whole(0)
    IN  [threw |-> FALSE, result |-> ArrayOf([i \in 1..newLength |-> Out(i - 1)], newLength)]

\* downsampleBuffer: "same" the input itself, "throw" the Error, else the
\* block averages.  Offsets are 0-based as in the source; buffer is 1-based.
downsampleBuffer(buffer, inputSampleRate, outputSampleRate) ==
  IF outputSampleRate = inputSampleRate THEN [threw |-> FALSE, result |-> buffer]
  ELSE IF outputSampleRate > inputSampleRate THEN [threw |-> TRUE, result |-> <<>>]
  ELSE
    LET sampleRateRatio == Num(inputSampleRate, outputSampleRate)
        newLength == Round(NumMul(Whole(Len(buffer)), Num(outputSampleRate, inputSampleRate)))
        Out(i) ==
          LET startOffset == Floor(NumMul(Whole(i), sampleRateRatio))
              endOffset == Floor(NumMul(Whole(i + 1), sampleRateRatio))
              last == IF endOffset < Len(buffer) THEN endOffset ELSE Len(buffer)
              count == last - startOffset
          IN  IF count > 0
              THEN NumDivInt(SumRange(buffer, startOffset + 1, last), count)
              ELSE Whole(0)
    IN  [threw |-> FALSE, result |-> ArrayOf([i \in 1..newLength |-> Out(i - 1)], newLength)]

\* one sample of floatTo16BitPCM: clamp, scale, and what view.setInt16 stores
\* (truncate toward zero, then wrap modulo 2^16 into the signed range)
ToInt16(v) ==
  LET t == Trunc(v)
      m == t % 65536
  IN  IF m >= 32768 THEN m - 65536 ELSE m

Clamp(x) ==
  LET lo == IF NumLess(Whole(1), x) THEN Whole(1) ELSE x        \* Math.min(1, x)
  IN  IF NumLess(lo, Whole(-1)) THEN Whole(-1) ELSE lo          \* Math.max(-1, .)

\* one sample scaled without the clamp to [-1, 1] (sensitivity of C27)
PcmSampleNoClamp(x) ==
  ToInt16(IF NumLess(x, Whole(0)) THEN NumMul(x, Whole(32768)) ELSE NumMul(x, Whole(32767)))

PcmSample(x) ==
  LET s == Clamp(x)
  IN  ToInt16(IF NumLess(s, Whole(0)) THEN NumMul(s, Whole(32768)) ELSE NumMul(s, Whole(32767)))

\* the two bytes setInt16(.., littleEndian = true) writes for a 16-bit value
LowByte(v) == (v % 65536) % 256
HighByte(v) == (v % 65536) \div 256

\* floatTo16BitPCM: the ArrayBuffer as a sequence of input.length * 2 bytes
floatTo16BitPCM(input) ==
  LET pcm == ArrayOf([i \in 1..Len(input) |-> PcmSample(input[i])], Len(input))
  IN  ArrayOf([b \in 1..(Len(input) * 2) |->
                IF b % 2 = 1 THEN LowByte(pcm[(b + 1) \div 2]) ELSE HighByte(pcm[(b + 1) \div 2])],
              Len(input) * 2)

\* calculateRMS(input) > threshold, decided without the square root:
\* for threshold >= 0, sqrt(m) > t iff m > t*t; a negative threshold is below
\* every RMS.  (input.length is never 0 here: the source would give NaN.)
SumSquares(input) ==
  SumRange(ArrayOf([i \in 1..Len(input) |-> NumMul(input[i], input[i])], Len(input)), 1, Len(input))

\* calculateRMS(input) >= threshold (sensitivity of C19)
RmsAtLeast(input, threshold) ==
  IF NumLess(threshold, Whole(0)) THEN TRUE
  ELSE NumLeq(NumMul(threshold, threshold), NumDivInt(SumSquares(input), Len(input)))

RmsExceeds(input, threshold) ==
  IF NumLess(threshold, Whole(0)) THEN TRUE
  ELSE NumLess(NumMul(threshold, threshold), NumDivInt(SumSquares(input), Len(input)))

\* ------------------------------------------------------------- strings
StartsWith(s, p) == Len(s) >= Len(p) /\ SubSeq(s, 1, Len(p)) = p

\* String.prototype.includes
Includes(s, p) == \E i \in 1..(Len(s) - Len(p) + 1) : SubSeq(s, i, i + Len(p) - 1) = p

IsSpace(c) == c \in {" ", "\t", "\n", "\r"}

\* String.prototype.trim
Trim(s) ==
  LET keep == {i \in 1..Len(s) : ~IsSpace(s[i])}
  IN  IF keep = {} THEN <<>>
      ELSE SubSeq(s, CHOOSE i \in keep : \A j \in keep : i <= j,
                     CHOOSE i \in keep : \A j \in keep : j <= i)

\* s.replace(p, '') for a string pattern: the first occurrence removed
RemoveFirst(s, p) ==
  LET hits == {i \in 1..(Len(s) - Len(p) + 1) : SubSeq(s, i, i + Len(p) - 1) = p}
  IN  IF hits = {} THEN s
      ELSE LET i == CHOOSE h \in hits : \A g \in hits : h <= g
           IN  SubSeq(s, 1, i - 1) \o SubSeq(s, i + Len(p), Len(s))

LowerLetters == <<"a", "b", "c", "d", "e", "f", "g", "h", "i", "j", "k", "l", "m",
                  "n", "o", "p", "q", "r", "s", "t", "u", "v", "w", "x", "y", "z">>
UpperLetters == <<"A", "B", "C", "D", "E", "F", "G", "H", "I", "J", "K", "L", "M",
                  "N", "O", "P", "Q", "R", "S", "T", "U", "V", "W", "X", "Y", "Z">>

UpperChar(c) ==
  IF \E i \in 1..26 : LowerLetters[i] = c
  THEN UpperLetters[CHOOSE i \in 1..26 : LowerLetters[i] = c] ELSE c
LowerChar(c) ==
  IF \E i \in 1..26 : UpperLetters[i] = c
  THEN LowerLetters[CHOOSE i \in 1..26 : UpperLetters[i] = c] ELSE c

ToUpperCase(s) == [i \in 1..Len(s) |-> UpperChar(s[i])]
ToLowerCase(s) == [i \in 1..Len(s) |-> LowerChar(s[i])]

\* ---------------------------------------------------------------- JSON
\* JSON.parse on the subset the inbound messages use: objects, strings
\* without escapes, unsigned integers, true, false, null, and white space
\* between tokens.  Anything else is a SyntaxError (ok = FALSE).
Undefined == [t |-> "undefined"]
JNull == [t |-> "null"]
JString(chars) == [t |-> "string", s |-> chars]
JNumber(n) == [t |-> "number", n |-> n]
JBool(b) == [t |-> "boolean", b |-> b]
JObject(members) == [t |-> "object", members |-> members]

Digits == <<"0", "1", "2", "3", "4", "5", "6", "7", "8", "9">>
IsDigit(c) == \E i \in 1..10 : Digits[i] = c
DigitValue(c) == (CHOOSE i \in 1..10 : Digits[i] = c) - 1

RECURSIVE SkipWs(_, _)
SkipWs(s, i) == IF i <= Len(s) /\ IsSpace(s[i]) THEN SkipWs(s, i + 1) ELSE i

ParseFail == [ok |-> FALSE, val |-> Undefined, next |-> 0]

\* s[i] is the opening quote
ParseStringAt(s, i) ==
  LET closing == {j \in (i + 1)..Len(s) : s[j] = "\""}
  IN  IF closing = {} THEN ParseFail
      ELSE LET j == CHOOSE c \in closing : \A d \in closing : c <= d
           IN  IF \E k \in (i + 1)..(j - 1) : s[k] = "\\" THEN ParseFail
               ELSE [ok |-> TRUE, val |-> JString(SubSeq(s, i + 1, j - 1)), next |-> j + 1]

RECURSIVE DigitsEnd(_, _)
DigitsEnd(s, i) == IF i <= Len(s) /\ IsDigit(s[i]) THEN DigitsEnd(s, i + 1) ELSE i

RECURSIVE DecimalValue(_, _, _)
DecimalValue(s, i, j) ==
  IF j < i THEN 0 ELSE 10 * DecimalValue(s, i, j - 1) + DigitValue(s[j])

Literal(s, i, word) == i + Len(word) - 1 <= Len(s) /\ SubSeq(s, i, i + Len(word) - 1) = word

RECURSIVE ParseValueAt(_, _)
RECURSIVE ParseMembersAt(_, _, _)

ParseValueAt(s, i) ==
  IF i > Len(s) THEN ParseFail
  ELSE IF s[i] = "\"" THEN ParseStringAt(s, i)
  ELSE IF IsDigit(s[i]) THEN
    LET e == DigitsEnd(s, i)
    IN  IF s[i] = "0" /\ e > i + 1 THEN ParseFail
        ELSE [ok |-> TRUE, val |-> JNumber(DecimalValue(s, i, e - 1)), next |-> e]
  ELSE IF Literal(s, i, <<"n", "u", "l", "l">>) THEN [ok |-> TRUE, val |-> JNull, next |-> i + 4]
  ELSE IF Literal(s, i, <<"t", "r", "u", "e">>) THEN [ok |-> TRUE, val |-> JBool(TRUE), next |-> i + 4]
  ELSE IF Literal(s, i, <<"f", "a", "l", "s", "e">>) THEN [ok |-> TRUE, val |-> JBool(FALSE), next |-> i + 5]
  ELSE IF s[i] = "{" THEN
    LET j == SkipWs(s, i + 1)
    IN  IF j <= Len(s) /\ s[j] = "}"
        THEN [ok |-> TRUE, val |-> JObject(<<>>), next |-> j + 1]
        ELSE ParseMembersAt(s, j, <<>>)
  ELSE ParseFail

\* i is where a member's key must start; acc the members read so far
ParseMembersAt(s, i, acc) ==
  IF i > Len(s) \/ s[i] # "\"" THEN ParseFail
  ELSE
    LET key == ParseStringAt(s, i)
    IN  IF ~key.ok THEN ParseFail
        ELSE
          LET c == SkipWs(s, key.next)
          IN  IF c > Len(s) \/ s[c] # ":" THEN ParseFail
              ELSE
                LET v == ParseValueAt(s, SkipWs(s, c + 1))
                IN  IF ~v.ok THEN ParseFail
                    ELSE
                      LET e == SkipWs(s, v.next)
                          members == Append(acc, <<key.val.s, v.val>>)
                      IN  IF e > Len(s) THEN ParseFail
                          ELSE IF s[e] = "}" THEN [ok |-> TRUE, val |-> JObject(members), next |-> e + 1]
                          ELSE IF s[e] = "," THEN ParseMembersAt(s, SkipWs(s, e + 1), members)
                          ELSE ParseFail

JSONParse(s) ==
  LET r == ParseValueAt(s, SkipWs(s, 1))
  IN  IF r.ok /\ SkipWs(s, r.next) > Len(s) THEN [ok |-> TRUE, val |-> r.val]
      ELSE [ok |-> FALSE, val |-> Undefined]

\* data.key for a parsed value that is not null (a duplicated key: the last wins)
GetProp(data, key) ==
  IF data.t # "object" THEN Undefined
  ELSE LET hits == {i \in 1..Len(data.members) : data.members[i][1] = key}
       IN  IF hits = {} THEN Undefined
           ELSE data.members[CHOOSE i \in hits : \A j \in hits : j <= i][2]

\* ToBoolean
Truthy(v) ==
  CASE v.t = "undefined" -> FALSE
    [] v.t = "null" -> FALSE
    [] v.t = "string" -> v.s # <<>>
    [] v.t = "number" -> v.n # 0
    [] v.t = "boolean" -> v.b
    [] OTHER -> TRUE

\* ------------------------------------------------------------- arrays
\* Array.prototype.slice(start, end): 0-based, end exclusive, arguments
\* truncated to integers, a negative one counted from the end
RelativeIndex(k, len) ==
  IF k < 0 THEN (IF len + k < 0 THEN 0 ELSE len + k)
  ELSE IF k > len THEN len ELSE k

Slice(q, start, end) ==
  SubSeq(q, RelativeIndex(Trunc(start), Len(q)) + 1, RelativeIndex(Trunc(end), Len(q)))

SliceFrom(q, start) == Slice(q, start, Whole(Len(q)))

\* ------------------------------------------------------------- state
VARIABLES
  status,            \* useState<ConnectionStatus>
  errorMessage,      \* useState<string | null>
  config,            \* useState<AppConfig>
  transcripts,       \* useState<TranscriptMessage[]>: <<text, sender>> entries
  processStatus,     \* useState<ProcessStatus>
  vadActive,         \* useState(false)
  wsRef,             \* useRef<WebSocket | null>
  audioContextRef,   \* useRef<AudioContext | null>
  processorRef,      \* useRef<ScriptProcessorNode | null>
  streamRef,         \* useRef<MediaStream | null>
  analyserRef,       \* useRef<AnalyserNode | null>
  audioQueue,        \* audioQueueRef.current
  sess,              \* the objects each startRecording call created
  nSessions,         \* startRecording calls so far
  micApi,            \* navigator.mediaDevices.getUserMedia exists
  pageSecure,        \* window.location.protocol === 'https:'
  statusLog,         \* history: the status before the last task, then its setStatus values
  lastEvent,         \* history: the last task, <<handler, session>>
  lastMessage,       \* history: event.data of the last task if it was a message, else <<>>
  lastInput,         \* history: the input samples of the last task if it was an audio callback, else <<>>
  isSettingsOpen,    \* useState(false): the settings dialog is shown
  formData,          \* SettingsModal: useState<AppConfig>(config)
  warned,            \* history: the dialog has shown its ws:// warning
  util,              \* the last direct call of an audio utility: its arguments and outcome
  worker,            \* the capture worker: <<config, socket, audioBufferQueue, frames sent>>
  pushed,            \* history: samples pushed since the queue was last emptied by cleanup
  sentFrames,        \* history: frames passed to ws.send since then, before encoding
  vadChanges,        \* history: setVadActive calls that changed the flag
  uncaught,          \* history: an exception left a handler uncaught
  nChunks,           \* audio callbacks so far
  nMessages          \* inbound messages so far

vars == <<status, errorMessage, config, transcripts, processStatus, vadActive,
          wsRef, audioContextRef, processorRef, streamRef, analyserRef, audioQueue,
          sess, nSessions, micApi, pageSecure, statusLog, lastEvent, lastMessage,
          lastInput, isSettingsOpen, formData, warned, util, worker,
          pushed, sentFrames,
          vadChanges, uncaught, nChunks, nMessages>>

NoMessage == "null"    \* errorMessage === null

\* no audio utility has been called directly
\* a call is <<function, input, inputSampleRate, outputSampleRate, threw, result>>
NoCall == <<"none", <<>>, 0, 0, FALSE, <<>>>>

\* what one startRecording call has created so far
NoSession ==
  [pc |-> "unused",          \* unused | awaitMic | built | failed
   stream |-> "none",        \* none | live | stopped   (MediaStream tracks)
   ctx |-> "none",           \* none | running | closed (AudioContext)
   proc |-> "none",          \* none | installed | detached (onaudioprocess)
   ws |-> "none",            \* none | CONNECTING | OPEN | CLOSING | CLOSED
   wsFailed |-> FALSE,       \* the connection was failed: error precedes close
   stopped |-> FALSE,        \* history: cleanupWS closed this socket
   inputRate |-> 0,          \* ctx.sampleRate
   cfg |-> DEFAULT_CONFIG,   \* config of the render whose startRecording ran
   errSeen |-> NoMessage,    \* errorMessage of that render
   failure |-> "none",       \* history: name of the error that ended the start
   sent |-> <<>>]            \* buffers passed to ws.send

\* the program state as one record, for the handlers below
Cur ==
  [status |-> status, errorMessage |-> errorMessage, config |-> config,
   transcripts |-> transcripts, processStatus |-> processStatus, vadActive |-> vadActive,
   wsRef |-> wsRef, audioContextRef |-> audioContextRef, processorRef |-> processorRef,
   streamRef |-> streamRef, analyserRef |-> analyserRef, audioQueue |-> audioQueue,
   sess |-> sess, nSessions |-> nSessions, statusLog |-> <<status>>, pushed |-> pushed,
   sentFrames |-> sentFrames, vadChanges |-> vadChanges, uncaught |-> uncaught,
   lastMessage |-> <<>>, lastInput |-> <<>>,
   isSettingsOpen |-> isSettingsOpen, formData |-> formData, warned |-> warned,
   worker |-> worker]

WsScheme == <<"w", "s", ":", "/", "/">>
WssScheme == <<"w", "s", "s", ":", "/", "/">>

\* SettingsModal: isSecure && formData.wsUrl.startsWith('ws://'); the
\* warning is part of what the dialog renders while it is open
hasProtocolMismatch(form) == pageSecure /\ StartsWith(form.wsUrl, WsScheme)

\* the state after a task that leaves the program in s
Commit(s, event) ==
  /\ status' = s.status
  /\ errorMessage' = s.errorMessage
  /\ config' = s.config
  /\ transcripts' = s.transcripts
  /\ processStatus' = s.processStatus
  /\ vadActive' = s.vadActive
  /\ wsRef' = s.wsRef
  /\ audioContextRef' = s.audioContextRef
  /\ processorRef' = s.processorRef
  /\ streamRef' = s.streamRef
  /\ analyserRef' = s.analyserRef
  /\ audioQueue' = s.audioQueue
  /\ sess' = s.sess
  /\ nSessions' = s.nSessions
  /\ statusLog' = s.statusLog
  /\ pushed' = s.pushed
  /\ sentFrames' = s.sentFrames
  /\ vadChanges' = s.vadChanges
  /\ uncaught' = s.uncaught
  /\ lastEvent' = event
  /\ lastMessage' = s.lastMessage
  /\ lastInput' = s.lastInput
  /\ isSettingsOpen' = s.isSettingsOpen
  /\ formData' = s.formData
  /\ warned' = (s.warned \/ (s.isSettingsOpen /\ hasProtocolMismatch(s.formData)))
  /\ worker' = s.worker
  /\ UNCHANGED util
  /\ UNCHANGED <<micApi, pageSecure>>

\* ------------------------------------------------------------- setters
setStatus(s, v) == [s EXCEPT !.status = v, !.statusLog = Append(@, v)]

\* setVadActive(prev => (prev !== isSpeech ? isSpeech : prev))
\* setVadActive as if every call were a change (sensitivity of C20)
setVadActiveAlways(s, isSpeech) ==
  [s EXCEPT !.vadActive = isSpeech, !.vadChanges = @ + 1]

setVadActive(s, isSpeech) ==
  [s EXCEPT !.vadActive = isSpeech,
            !.vadChanges = IF s.vadActive # isSpeech THEN @ + 1 ELSE @]

\* ------------------------------------------------------------- teardown
cleanupAudio(s) ==
  LET s1 == IF s.processorRef # NULL
            THEN [s EXCEPT !.sess[s.processorRef].proc = "detached", !.processorRef = NULL]
            ELSE s
      s2 == IF s1.streamRef # NULL
            THEN [s1 EXCEPT !.sess[s1.streamRef].stream = "stopped", !.streamRef = NULL]
            ELSE s1
      s3 == IF s2.audioContextRef # NULL
            THEN [s2 EXCEPT !.sess[s2.audioContextRef].ctx = "closed", !.audioContextRef = NULL]
            ELSE s2
      s4 == [s3 EXCEPT !.audioQueue = <<>>, !.pushed = <<>>, !.sentFrames = <<>>]
  IN  [setVadActive(s4, FALSE) EXCEPT !.processStatus = "idle"]

\* WebSocket.close(): a socket still connecting is failed (its error event
\* precedes its close event); an open one starts the closing handshake
SocketClose(w) ==
  CASE w.ws = "CONNECTING" -> [w EXCEPT !.ws = "CLOSING", !.wsFailed = TRUE]
    [] w.ws = "OPEN" -> [w EXCEPT !.ws = "CLOSING"]
    [] OTHER -> w

\* cleanupWS with the null guard left out: wsRef.current.close() on a null
\* reference throws before the status is set (sensitivity of C6)
cleanupWSUnguarded(s) ==
  IF s.wsRef # NULL
  THEN setStatus([s EXCEPT !.sess[s.wsRef] = [SocketClose(@) EXCEPT !.stopped = TRUE],
                           !.wsRef = NULL], DISCONNECTED)
  ELSE [s EXCEPT !.uncaught = TRUE]

cleanupWS(s) ==
  LET s1 == IF s.wsRef # NULL
            THEN [s EXCEPT !.sess[s.wsRef] = [SocketClose(@) EXCEPT !.stopped = TRUE],
                           !.wsRef = NULL]
            ELSE s
  IN  setStatus(s1, DISCONNECTED)

stopRecording(s) == cleanupWS(cleanupAudio(s))

\* ------------------------------------------------------------- start
MicUnsupportedMessage == "Microphone access is not supported in this context. Browsers require HTTPS or 'localhost' to access the microphone."
PermissionDeniedMessage == "Microphone permission denied. Please allow access in browser settings."
NoMicrophoneMessage == "No microphone found."
UnknownSetupMessage == "Unknown error occurred during setup"
ConnectionFailedMessage == "Connection failed. Check server status and URL."
ConnectionFailedNoteMessage == "Connection failed. Check server status and URL. (Note: Browsers often block insecure ws:// from https:// pages)"

\* the errors the environment raises during setup: [name, message]
NotAllowedError == [name |-> "NotAllowedError", message |-> "Permission denied"]
NotFoundError == [name |-> "NotFoundError", message |-> "Requested device not found"]
NotReadableError == [name |-> "NotReadableError", message |-> ""]
CapabilityError == [name |-> "Error", message |-> MicUnsupportedMessage]
SocketCtorError == [name |-> "SyntaxError", message |-> "Failed to construct 'WebSocket'"]

\* the catch block with setStatus(ERROR) left out (sensitivity of C10)
catchSetupNoStatus(s, err) ==
  LET msg == CASE err.name = "NotAllowedError" -> PermissionDeniedMessage
               [] err.name = "NotFoundError" -> NoMicrophoneMessage
               [] err.message # "" -> err.message
               [] OTHER -> UnknownSetupMessage
  IN  [s EXCEPT !.errorMessage = msg]

\* the catch block of startRecording
catchSetup(s, err) ==
  LET msg == CASE err.name = "NotAllowedError" -> PermissionDeniedMessage
               [] err.name = "NotFoundError" -> NoMicrophoneMessage
               [] err.message # "" -> err.message
               [] OTHER -> UnknownSetupMessage
  IN  [setStatus(s, ERROR) EXCEPT !.errorMessage = msg]

\* startRecording up to its await, as the startRecording of a render that saw
\* config cfg and errorMessage errSeen; the call is session s.nSessions + 1
startRecording(s, cfg, errSeen) ==
  LET k == s.nSessions + 1
      s1 == [s EXCEPT !.errorMessage = NoMessage, !.nSessions = k]
      s2 == [setStatus(s1, CONNECTING) EXCEPT !.processStatus = "idle"]
  IN  IF ~micApi
      THEN catchSetup([s2 EXCEPT !.sess[k].pc = "failed", !.sess[k].failure = CapabilityError.name],
                      CapabilityError)
      ELSE [s2 EXCEPT !.sess[k] = [NoSession EXCEPT !.pc = "awaitMic", !.cfg = cfg,
                                                    !.errSeen = errSeen]]

\* new WebSocket(url) throws: always for a url that is no ws/wss URL; for
\* ws:// from an https page some browsers throw a SecurityError in the
\* constructor and others fail the connection later
SocketCtorMayThrow(url) == ~(StartsWith(url, WsScheme) \/ StartsWith(url, WssScheme))
                             \/ (pageSecure /\ StartsWith(url, WsScheme))
SocketCtorMayReturn(url) == StartsWith(url, WsScheme) \/ StartsWith(url, WssScheme)

\* startRecording of session k after getUserMedia rejected with err
startRejected(s, k, err) ==
  catchSetup([s EXCEPT !.sess[k].pc = "failed", !.sess[k].failure = err.name], err)

\* startRecording of session k after getUserMedia resolved: the audio graph,
\* then the socket; ctorThrows says whether new WebSocket threw
startGranted(s, k, rate, ctorThrows) ==
  LET s1 == [s EXCEPT !.sess[k].stream = "live", !.streamRef = k,
                      !.sess[k].ctx = "running", !.audioContextRef = k,
                      !.sess[k].inputRate = rate,
                      !.analyserRef = k,
                      !.sess[k].proc = "installed", !.processorRef = k]
  IN  IF ctorThrows
      THEN catchSetup([s1 EXCEPT !.sess[k].pc = "failed", !.sess[k].failure = SocketCtorError.name],
                      SocketCtorError)
      ELSE [s1 EXCEPT !.sess[k].ws = "CONNECTING", !.sess[k].pc = "built", !.wsRef = k]

\* ------------------------------------------------------ socket callbacks
\* ws.onerror of session k's socket
onerror(s, k) ==
  LET connectionUrl == s.sess[k].cfg.wsUrl
      msg == IF pageSecure /\ StartsWith(connectionUrl, WsScheme)
             THEN ConnectionFailedNoteMessage ELSE ConnectionFailedMessage
      s1 == setStatus(s, ERROR)
      s2 == IF s.sess[k].errSeen = NoMessage THEN [s1 EXCEPT !.errorMessage = msg] ELSE s1
  IN  cleanupAudio(s2)

\* ws.onclose of session k's socket
\* a close handler without the functional update: always disconnected
oncloseUnconditional(s, k) == cleanupAudio(setStatus(s, DISCONNECTED))

onclose(s, k) ==
  cleanupAudio(setStatus(s, IF s.status = ERROR THEN s.status ELSE DISCONNECTED))

\* ------------------------------------------------------ audio callback
\* the frame size without the division by 1000 (sensitivity of C23)
VAD_SAMPLES_PER_FRAME_PerSecond(cfg) ==
  NumMul(Whole(TARGET_SAMPLE_RATE), cfg.frameDurationMs)

\* TARGET_SAMPLE_RATE * config.frameDurationMs / 1000, not rounded
VAD_SAMPLES_PER_FRAME(cfg) ==
  NumDivInt(NumMul(Whole(TARGET_SAMPLE_RATE), cfg.frameDurationMs), 1000)

\* the drain with the queue advanced by one sample too many (sensitivity of C1)
RECURSIVE DrainQueueLossy(_, _, _)
DrainQueueLossy(queue, n, frames) ==
  IF NumLeq(n, Whole(Len(queue)))
  THEN DrainQueueLossy(SliceFrom(queue, NumAdd(n, Whole(1))), n,
                       Append(frames, Slice(queue, Whole(0), n)))
  ELSE [queue |-> queue, frames |-> frames]

\* the drain that also flushes what is left as a short frame (sensitivity of C11)
RECURSIVE DrainQueueFlush(_, _, _)
DrainQueueFlush(queue, n, frames) ==
  IF NumLeq(n, Whole(Len(queue)))
  THEN DrainQueueFlush(SliceFrom(queue, n), n, Append(frames, Slice(queue, Whole(0), n)))
  ELSE IF queue # <<>> THEN [queue |-> <<>>, frames |-> Append(frames, queue)]
  ELSE [queue |-> queue, frames |-> frames]

\* the drain with > for >=: a queue of exactly one frame waits (sensitivity of C12)
RECURSIVE DrainQueueStrict(_, _, _)
DrainQueueStrict(queue, n, frames) ==
  IF NumLess(n, Whole(Len(queue)))
  THEN DrainQueueStrict(SliceFrom(queue, n), n, Append(frames, Slice(queue, Whole(0), n)))
  ELSE [queue |-> queue, frames |-> frames]

\* while (queue.length >= n) { frame = queue.slice(0, n); queue = queue.slice(n); ... }
\* frames: the frames sliced off so far, in order
RECURSIVE DrainQueue(_, _, _)
DrainQueue(queue, n, frames) ==
  IF NumLeq(n, Whole(Len(queue)))
  THEN DrainQueue(SliceFrom(queue, n), n, Append(frames, Slice(queue, Whole(0), n)))
  ELSE [queue |-> queue, frames |-> frames]

\* ws.send of each frame, encoded, on socket w
SendFrames(w, frames) ==
  [w EXCEPT !.sent = @ \o ArrayOf([i \in 1..Len(frames) |-> floatTo16BitPCM(frames[i])], Len(frames))]

\* the send guard without the readyState test (sensitivity of C2)
SocketReadyAnyState(s) == s.wsRef # NULL

\* wsRef.current && wsRef.current.readyState === WebSocket.OPEN
SocketReady(s) == s.wsRef # NULL /\ s.sess[s.wsRef].ws = "OPEN"

\* the audio callback reading the configuration last saved instead of the one
\* its startRecording call saw (sensitivity of C21)
onaudioprocessLiveConfig(s, k, inputData) ==
  IF SocketReady(s)
  THEN
    LET cfg == s.config
        inputSampleRate == s.sess[k].inputRate
        isSpeech == RmsExceeds(inputData, cfg.silenceThreshold)
        s1 == setVadActive(s, isSpeech)
        down == IF inputSampleRate # TARGET_SAMPLE_RATE
                THEN downsampleBuffer(inputData, inputSampleRate, TARGET_SAMPLE_RATE)
                ELSE [threw |-> FALSE, result |-> inputData]
    IN  IF down.threw THEN [s1 EXCEPT !.uncaught = TRUE]
        ELSE
          LET d == DrainQueue(s1.audioQueue \o down.result, VAD_SAMPLES_PER_FRAME(cfg), <<>>)
          IN  [s1 EXCEPT !.audioQueue = d.queue,
                         !.pushed = @ \o down.result,
                         !.sentFrames = @ \o d.frames,
                         !.sess[s.wsRef] = SendFrames(@, d.frames)]
  ELSE s

\* processor.onaudioprocess of session k on the chunk inputData
onaudioprocess(s, k, inputData) ==
  IF SocketReady(s)
  THEN
    LET cfg == s.sess[k].cfg
        inputSampleRate == s.sess[k].inputRate
        isSpeech == RmsExceeds(inputData, cfg.silenceThreshold)
        s1 == setVadActive(s, isSpeech)
        down == IF inputSampleRate # TARGET_SAMPLE_RATE
                THEN downsampleBuffer(inputData, inputSampleRate, TARGET_SAMPLE_RATE)
                ELSE [threw |-> FALSE, result |-> inputData]
    IN  IF down.threw THEN [s1 EXCEPT !.uncaught = TRUE]
        ELSE
          LET d == DrainQueue(s1.audioQueue \o down.result, VAD_SAMPLES_PER_FRAME(cfg), <<>>)
          IN  [s1 EXCEPT !.audioQueue = d.queue,
                         !.pushed = @ \o down.result,
                         !.sentFrames = @ \o d.frames,
                         !.sess[s.wsRef] = SendFrames(@, d.frames)]
  ELSE s

\* ------------------------------------------------------ capture worker
\* the worker before INIT: socket and config are null, the queue is empty
NoWorker == <<DEFAULT_CONFIG, "none", <<>>, <<>>>>

\* initialize(cfg): cleanup(), then config, an empty queue and a new socket
initialize(w, cfg) == <<cfg, "CONNECTING", <<>>, <<>>>>

\* socket.onopen of the worker's socket
workerSocketOpen(w) == [w EXCEPT ![2] = "OPEN"]

\* the worker's chain without the resampling step (sensitivity of C32)
processAudioNoDownsample(w, inputData, inputSampleRate) ==
  IF w[2] # "OPEN" THEN w
  ELSE
    LET n == Whole(Floor(NumDivInt(NumMul(Whole(TARGET_SAMPLE_RATE), w[1].frameDurationMs), 1000)))
        d == DrainQueue(w[3] \o inputData, n, <<>>)
    IN  <<w[1], w[2], d.queue,
          w[4] \o ArrayOf([i \in 1..Len(d.frames) |-> floatTo16BitPCM(d.frames[i])], Len(d.frames))>>

\* processAudio(inputData, inputSampleRate) of the worker; an exception of
\* downsampleBuffer leaves the function before anything is queued
processAudio(w, inputData, inputSampleRate) ==
  IF w[2] # "OPEN" THEN w
  ELSE
    LET down == IF inputSampleRate # TARGET_SAMPLE_RATE
                THEN downsampleBuffer(inputData, inputSampleRate, TARGET_SAMPLE_RATE)
                ELSE [threw |-> FALSE, result |-> inputData]
        n == Whole(Floor(NumDivInt(NumMul(Whole(TARGET_SAMPLE_RATE), w[1].frameDurationMs), 1000)))
    IN  IF down.threw THEN w
        ELSE
          LET d == DrainQueue(w[3] \o down.result, n, <<>>)
          IN  <<w[1], w[2], d.queue,
                w[4] \o ArrayOf([i \in 1..Len(d.frames) |-> floatTo16BitPCM(d.frames[i])],
                                Len(d.frames))>>

\* --------------------------------------------------- message interpreter
T_TYPE == <<"t", "y", "p", "e">>
T_TEXT == <<"t", "e", "x", "t">>
T_MESSAGE == <<"m", "e", "s", "s", "a", "g", "e">>
CONNECTED_TYPES ==
  {<<"C", "O", "N", "N", "E", "C", "T", "E", "D">>,
   <<"C", "O", "N", "N", "E", "C", "T", "I", "O", "N", "_", "E", "S", "T", "A", "B", "L", "I", "S", "H", "E", "D">>}
SPEECH_TYPES ==
  {<<"T", "R", "A", "N", "S", "C", "R", "I", "P", "T", "I", "O", "N", "_", "S", "T", "A", "R", "T", "E", "D">>,
   <<"S", "P", "E", "E", "C", "H", "_", "S", "T", "A", "R", "T">>,
   <<"V", "A", "D", "_", "S", "T", "A", "R", "T">>,
   <<"L", "I", "S", "T", "E", "N", "I", "N", "G">>}
TRANSCRIPT_TYPES ==
  {<<"T", "R", "A", "N", "S", "C", "R", "I", "P", "T", "I", "O", "N", "_", "C", "O", "M", "P", "L", "E", "T", "E", "D">>,
   <<"T", "R", "A", "N", "S", "C", "R", "I", "P", "T", "I", "O", "N">>,
   <<"U", "S", "E", "R", "_", "T", "R", "A", "N", "S", "C", "R", "I", "P", "T">>}
PROCESSING_TYPES ==
  {<<"P", "R", "O", "C", "E", "S", "S", "I", "N", "G", "_", "S", "T", "A", "R", "T", "E", "D">>,
   <<"P", "R", "O", "C", "E", "S", "S", "I", "N", "G", "_", "S", "T", "A", "R", "T">>,
   <<"T", "H", "I", "N", "K", "I", "N", "G">>}
RESPONSE_TYPES ==
  {<<"P", "R", "O", "C", "E", "S", "S", "I", "N", "G", "_", "C", "O", "M", "P", "L", "E", "T", "E", "D">>,
   <<"S", "Y", "S", "T", "E", "M", "_", "R", "E", "S", "P", "O", "N", "S", "E">>,
   <<"V", "O", "I", "C", "E", "_", "F", "E", "E", "D", "B", "A", "C", "K">>,
   <<"A", "I", "_", "R", "E", "S", "P", "O", "N", "S", "E">>}
VOICE_FEEDBACK_PREFIX == <<"V", "O", "I", "C", "E", " ", "F", "E", "E", "D", "B", "A", "C", "K", ":">>
TRANSCRIPTION_PREFIX == <<"T", "R", "A", "N", "S", "C", "R", "I", "P", "T", "I", "O", "N", ":">>
W_STARTED == <<"s", "t", "a", "r", "t", "e", "d">>
W_TRANSCRIPTION == <<"t", "r", "a", "n", "s", "c", "r", "i", "p", "t", "i", "o", "n">>
W_PROCESSING == <<"p", "r", "o", "c", "e", "s", "s", "i", "n", "g">>

\* (data.type || '').toUpperCase(), and whether evaluating it throws
TypeThrows(data) ==
  data.t = "null" \/ (Truthy(GetProp(data, T_TYPE)) /\ GetProp(data, T_TYPE).t # "string")
MsgType(data) ==
  IF Truthy(GetProp(data, T_TYPE)) THEN ToUpperCase(GetProp(data, T_TYPE).s) ELSE <<>>

\* data.text?.trim(): <<>> stands for undefined and for '' alike (both falsy)
UserTextThrows(data) == GetProp(data, T_TEXT).t \notin {"undefined", "null", "string"}
\* data.text without the trim (sensitivity of C13)
UserTextUntrimmed(data) ==
  IF GetProp(data, T_TEXT).t = "string" THEN GetProp(data, T_TEXT).s ELSE <<>>

UserText(data) ==
  IF GetProp(data, T_TEXT).t = "string" THEN Trim(GetProp(data, T_TEXT).s) ELSE <<>>

\* (data.text || data.message || '').trim()
SystemTextValue(data) ==
  IF Truthy(GetProp(data, T_TEXT)) THEN GetProp(data, T_TEXT)
  ELSE IF Truthy(GetProp(data, T_MESSAGE)) THEN GetProp(data, T_MESSAGE)
  ELSE JString(<<>>)
SystemTextThrows(data) == SystemTextValue(data).t # "string"
SystemText(data) == Trim(SystemTextValue(data).s)

appendTranscript(s, text, sender) == [s EXCEPT !.transcripts = Append(@, <<text, sender>>)]

\* the system response that stops and does not start again (sensitivity of C29)
restartRecordingStopOnly(s) == stopRecording(s)

\* the stop-then-start of a system response: handleWebSocketMessage is
\* memoized with no dependencies, so it calls the first render's
\* stopRecording and startRecording (config and errorMessage as first rendered)
restartRecording(s) == startRecording(stopRecording(s), DEFAULT_CONFIG, NoMessage)

\* the try block; reached only when nothing in it throws
structuredMessage(s, data) ==
  LET msgType == MsgType(data)
  IN  CASE msgType \in CONNECTED_TYPES ->
             [setStatus(s, CONNECTED) EXCEPT !.processStatus = "idle"]
        [] msgType \in SPEECH_TYPES -> [s EXCEPT !.processStatus = "transcribing"]
        [] msgType \in TRANSCRIPT_TYPES ->
             [(IF UserText(data) # <<>> THEN appendTranscript(s, UserText(data), "user") ELSE s)
                EXCEPT !.processStatus = "idle"]
        [] msgType \in PROCESSING_TYPES -> [s EXCEPT !.processStatus = "processing"]
        [] msgType \in RESPONSE_TYPES ->
             [(IF SystemText(data) # <<>>
               THEN appendTranscript(restartRecording(s), SystemText(data), "system")
               ELSE s)
                EXCEPT !.processStatus = "idle"]
        [] OTHER -> s

\* whether the try block throws on the parsed value (always before any effect)
StructuredThrows(data) ==
  \/ TypeThrows(data)
  \/ MsgType(data) \in TRANSCRIPT_TYPES /\ UserTextThrows(data)
  \/ MsgType(data) \in RESPONSE_TYPES /\ SystemTextThrows(data)

\* the catch block without the trim of what follows the prefix (sensitivity of C14)
legacyMessageUntrimmed(s, rawData) ==
  LET textData == Trim(rawData)
  IN  IF StartsWith(textData, VOICE_FEEDBACK_PREFIX) THEN
        [appendTranscript(restartRecording(s),
                          RemoveFirst(textData, VOICE_FEEDBACK_PREFIX), "system")
           EXCEPT !.processStatus = "idle"]
      ELSE IF StartsWith(textData, TRANSCRIPTION_PREFIX) THEN
        [appendTranscript(s, RemoveFirst(textData, TRANSCRIPTION_PREFIX), "user")
           EXCEPT !.processStatus = "idle"]
      ELSE s

\* the catch block with the keywords matched case-sensitively (sensitivity of C15)
legacyMessageCaseSensitive(s, rawData) ==
  LET textData == Trim(rawData)
  IN  IF StartsWith(textData, VOICE_FEEDBACK_PREFIX) THEN
        [appendTranscript(restartRecording(s),
                          Trim(RemoveFirst(textData, VOICE_FEEDBACK_PREFIX)), "system")
           EXCEPT !.processStatus = "idle"]
      ELSE IF StartsWith(textData, TRANSCRIPTION_PREFIX) THEN
        [appendTranscript(s, Trim(RemoveFirst(textData, TRANSCRIPTION_PREFIX)), "user")
           EXCEPT !.processStatus = "idle"]
      ELSE IF Includes(textData, W_STARTED) THEN
        LET s1 == IF Includes(textData, W_TRANSCRIPTION)
                  THEN [s EXCEPT !.processStatus = "transcribing"] ELSE s
        IN  IF Includes(textData, W_PROCESSING)
            THEN [s1 EXCEPT !.processStatus = "processing"] ELSE s1
      ELSE s

\* the catch block with the two keyword tests in the other order
legacyMessageTranscriptionWins(s, rawData) ==
  LET textData == Trim(rawData)
  IN  IF StartsWith(textData, VOICE_FEEDBACK_PREFIX) THEN
        [appendTranscript(restartRecording(s),
                          Trim(RemoveFirst(textData, VOICE_FEEDBACK_PREFIX)), "system")
           EXCEPT !.processStatus = "idle"]
      ELSE IF StartsWith(textData, TRANSCRIPTION_PREFIX) THEN
        [appendTranscript(s, Trim(RemoveFirst(textData, TRANSCRIPTION_PREFIX)), "user")
           EXCEPT !.processStatus = "idle"]
      ELSE IF Includes(textData, W_STARTED) THEN
        LET s1 == IF Includes(ToLowerCase(textData), W_PROCESSING)
                  THEN [s EXCEPT !.processStatus = "processing"] ELSE s
        IN  IF Includes(ToLowerCase(textData), W_TRANSCRIPTION)
            THEN [s1 EXCEPT !.processStatus = "transcribing"] ELSE s1
      ELSE s

\* the catch block: the legacy plain-text protocol
legacyMessage(s, rawData) ==
  LET textData == Trim(rawData)
  IN  IF StartsWith(textData, VOICE_FEEDBACK_PREFIX) THEN
        [appendTranscript(restartRecording(s),
                          Trim(RemoveFirst(textData, VOICE_FEEDBACK_PREFIX)), "system")
           EXCEPT !.processStatus = "idle"]
      ELSE IF StartsWith(textData, TRANSCRIPTION_PREFIX) THEN
        [appendTranscript(s, Trim(RemoveFirst(textData, TRANSCRIPTION_PREFIX)), "user")
           EXCEPT !.processStatus = "idle"]
      ELSE IF Includes(textData, W_STARTED) THEN
        LET s1 == IF Includes(ToLowerCase(textData), W_TRANSCRIPTION)
                  THEN [s EXCEPT !.processStatus = "transcribing"] ELSE s
        IN  IF Includes(ToLowerCase(textData), W_PROCESSING)
            THEN [s1 EXCEPT !.processStatus = "processing"] ELSE s1
      ELSE s

\* whether handling rawData calls startRecording
MessageRestarts(rawData) ==
  LET parsed == JSONParse(rawData)
  IN  IF parsed.ok /\ ~StructuredThrows(parsed.val)
      THEN MsgType(parsed.val) \in RESPONSE_TYPES /\ SystemText(parsed.val) # <<>>
      ELSE StartsWith(Trim(rawData), VOICE_FEEDBACK_PREFIX)

handleWebSocketMessage(s, rawData) ==
  LET parsed == JSONParse(rawData)
  IN  IF parsed.ok /\ ~StructuredThrows(parsed.val)
      THEN structuredMessage(s, parsed.val)
      ELSE legacyMessage(s, rawData)

\* ------------------------------------------------------------ inputs
\* one hardware chunk of BROWSER_BUFFER_SIZE samples; seed 0 is silence,
\* seed 3 is the constant 0.01, whose RMS is the default silenceThreshold, and
\* the others are distinct periodic signals with values in [-1, 1]
Chunk(seed) ==
  ArrayOf([i \in 1..BROWSER_BUFFER_SIZE |->
             IF seed = 0 THEN Whole(0)
             ELSE IF seed = 3 THEN Num(1, 100)
             ELSE Num(((seed * i) % 9) - 4, 4)],
          BROWSER_BUFFER_SIZE)

AllChunkSeeds == {0, 1, 2, 3}
Chunks == [seed \in AllChunkSeeds |-> Chunk(seed)]

\* ctx.sampleRate values: the target rate itself and a multiple of it
SampleRates == {16000, 48000}
ChunkSeeds == {1}

\* {"type":"connected"}
MsgConnected ==
  <<"{", "\"", "t", "y", "p", "e", "\"", ":", "\"", "c", "o", "n", "n", "e", "c", "t", "e", "d", "\"", "}">>
\* {"type":"AI_RESPONSE","text":"ok"}
MsgAiResponse ==
  <<"{", "\"", "t", "y", "p", "e", "\"", ":", "\"", "A", "I", "_", "R", "E", "S", "P", "O", "N", "S", "E", "\"", ",", "\"", "t", "e", "x", "t", "\"", ":", "\"", "o", "k", "\"", "}">>
\* {"type":"thinking"}
MsgThinking ==
  <<"{", "\"", "t", "y", "p", "e", "\"", ":", "\"", "t", "h", "i", "n", "k", "i", "n", "g", "\"", "}">>

InboundMessages == {MsgConnected, MsgAiResponse, MsgThinking}

\* event.data of the inbound messages the interpreter is exercised with
ProtocolTexts ==
  [
   \* {"type":"TRANSCRIPTION_COMPLETED","text":"hello"}
   MsgTranscriptionCompleted |->
     <<"{", "\"", "t", "y", "p", "e", "\"", ":", "\"", "T", "R", "A", "N", "S", "C", "R", "I", "P", "T", "I", "O", "N", "_", "C", "O", "M", "P", "L", "E", "T", "E", "D", "\"", ",", "\"", "t", "e", "x", "t", "\"", ":", "\"", "h", "e", "l", "l", "o", "\"", "}">>,
   \* {"type":"transcription","text":" hi "}
   MsgTranscriptionPadded |->
     <<"{", "\"", "t", "y", "p", "e", "\"", ":", "\"", "t", "r", "a", "n", "s", "c", "r", "i", "p", "t", "i", "o", "n", "\"", ",", "\"", "t", "e", "x", "t", "\"", ":", "\"", " ", "h", "i", " ", "\"", "}">>,
   \* {"type":"User_Transcript","text":"  "}
   MsgUserTranscriptBlank |->
     <<"{", "\"", "t", "y", "p", "e", "\"", ":", "\"", "U", "s", "e", "r", "_", "T", "r", "a", "n", "s", "c", "r", "i", "p", "t", "\"", ",", "\"", "t", "e", "x", "t", "\"", ":", "\"", " ", " ", "\"", "}">>,
   \* {"type":"transcription"}
   MsgTranscriptionNoText |->
     <<"{", "\"", "t", "y", "p", "e", "\"", ":", "\"", "t", "r", "a", "n", "s", "c", "r", "i", "p", "t", "i", "o", "n", "\"", "}">>,
   \* {"type":"transcription","text":5,"note":"processing started"}
   MsgTranscriptionNumericText |->
     <<"{", "\"", "t", "y", "p", "e", "\"", ":", "\"", "t", "r", "a", "n", "s", "c", "r", "i", "p", "t", "i", "o", "n", "\"", ",", "\"", "t", "e", "x", "t", "\"", ":", "5", ",", "\"", "n", "o", "t", "e", "\"", ":", "\"", "p", "r", "o", "c", "e", "s", "s", "i", "n", "g", " ", "s", "t", "a", "r", "t", "e", "d", "\"", "}">>,
   \* {"type":7,"note":"processing started"}
   MsgNumericType |->
     <<"{", "\"", "t", "y", "p", "e", "\"", ":", "7", ",", "\"", "n", "o", "t", "e", "\"", ":", "\"", "p", "r", "o", "c", "e", "s", "s", "i", "n", "g", " ", "s", "t", "a", "r", "t", "e", "d", "\"", "}">>,
   \* {"type":"speech_start"}
   MsgSpeechStart |->
     <<"{", "\"", "t", "y", "p", "e", "\"", ":", "\"", "s", "p", "e", "e", "c", "h", "_", "s", "t", "a", "r", "t", "\"", "}">>,
   \* {"type":"vad_start"}
   MsgVadStart |->
     <<"{", "\"", "t", "y", "p", "e", "\"", ":", "\"", "v", "a", "d", "_", "s", "t", "a", "r", "t", "\"", "}">>,
   \* {"type":"LISTENING"}
   MsgListening |->
     <<"{", "\"", "t", "y", "p", "e", "\"", ":", "\"", "L", "I", "S", "T", "E", "N", "I", "N", "G", "\"", "}">>,
   \* {"type":"transcription_started"}
   MsgTranscriptionStarted |->
     <<"{", "\"", "t", "y", "p", "e", "\"", ":", "\"", "t", "r", "a", "n", "s", "c", "r", "i", "p", "t", "i", "o", "n", "_", "s", "t", "a", "r", "t", "e", "d", "\"", "}">>,
   \* {"type":"processing_started"}
   MsgProcessingStarted |->
     <<"{", "\"", "t", "y", "p", "e", "\"", ":", "\"", "p", "r", "o", "c", "e", "s", "s", "i", "n", "g", "_", "s", "t", "a", "r", "t", "e", "d", "\"", "}">>,
   \* {"type":"Processing_Start"}
   MsgProcessingStart |->
     <<"{", "\"", "t", "y", "p", "e", "\"", ":", "\"", "P", "r", "o", "c", "e", "s", "s", "i", "n", "g", "_", "S", "t", "a", "r", "t", "\"", "}">>,
   \* {"type":"connection_established"}
   MsgConnectionEstablished |->
     <<"{", "\"", "t", "y", "p", "e", "\"", ":", "\"", "c", "o", "n", "n", "e", "c", "t", "i", "o", "n", "_", "e", "s", "t", "a", "b", "l", "i", "s", "h", "e", "d", "\"", "}">>,
   \* {"type":"voice_feedback","message":"done"}
   MsgVoiceFeedbackMessage |->
     <<"{", "\"", "t", "y", "p", "e", "\"", ":", "\"", "v", "o", "i", "c", "e", "_", "f", "e", "e", "d", "b", "a", "c", "k", "\"", ",", "\"", "m", "e", "s", "s", "a", "g", "e", "\"", ":", "\"", "d", "o", "n", "e", "\"", "}">>,
   \* {"type":"system_response","text":""}
   MsgSystemResponseEmpty |->
     <<"{", "\"", "t", "y", "p", "e", "\"", ":", "\"", "s", "y", "s", "t", "e", "m", "_", "r", "e", "s", "p", "o", "n", "s", "e", "\"", ",", "\"", "t", "e", "x", "t", "\"", ":", "\"", "\"", "}">>,
   \* {"type":"processing_completed","text":"fine"}
   MsgProcessingCompleted |->
     <<"{", "\"", "t", "y", "p", "e", "\"", ":", "\"", "p", "r", "o", "c", "e", "s", "s", "i", "n", "g", "_", "c", "o", "m", "p", "l", "e", "t", "e", "d", "\"", ",", "\"", "t", "e", "x", "t", "\"", ":", "\"", "f", "i", "n", "e", "\"", "}">>,
   \* {"type":"pong","text":"processing started"}
   MsgPong |->
     <<"{", "\"", "t", "y", "p", "e", "\"", ":", "\"", "p", "o", "n", "g", "\"", ",", "\"", "t", "e", "x", "t", "\"", ":", "\"", "p", "r", "o", "c", "e", "s", "s", "i", "n", "g", " ", "s", "t", "a", "r", "t", "e", "d", "\"", "}">>,
   \* {}
   MsgNoType |->
     <<"{", "}">>,
   \* 42
   MsgNumber |->
     <<"4", "2">>,
   \* VOICE FEEDBACK: all done
   LegacyVoiceFeedback |->
     <<"V", "O", "I", "C", "E", " ", "F", "E", "E", "D", "B", "A", "C", "K", ":", " ", "a", "l", "l", " ", "d", "o", "n", "e">>,
   \* VOICE FEEDBACK:
   LegacyVoiceFeedbackEmpty |->
     <<"V", "O", "I", "C", "E", " ", "F", "E", "E", "D", "B", "A", "C", "K", ":">>,
   \* TRANSCRIPTION: hi there
   LegacyTranscription |->
     <<"T", "R", "A", "N", "S", "C", "R", "I", "P", "T", "I", "O", "N", ":", " ", "h", "i", " ", "t", "h", "e", "r", "e">>,
   \*  TRANSCRIPTION:x 
   LegacyTranscriptionPadded |->
     <<" ", "T", "R", "A", "N", "S", "C", "R", "I", "P", "T", "I", "O", "N", ":", "x", " ">>,
   \* {not json
   TextNotJson |->
     <<"{", "n", "o", "t", " ", "j", "s", "o", "n">>,
   \* Transcription started
   TextTranscriptionStarted |->
     <<"T", "r", "a", "n", "s", "c", "r", "i", "p", "t", "i", "o", "n", " ", "s", "t", "a", "r", "t", "e", "d">>,
   \* processing started
   TextProcessingStarted |->
     <<"p", "r", "o", "c", "e", "s", "s", "i", "n", "g", " ", "s", "t", "a", "r", "t", "e", "d">>,
   \* transcription processing started
   TextBothStarted |->
     <<"t", "r", "a", "n", "s", "c", "r", "i", "p", "t", "i", "o", "n", " ", "p", "r", "o", "c", "e", "s", "s", "i", "n", "g", " ", "s", "t", "a", "r", "t", "e", "d">>,
   \* it started
   TextStartedOnly |->
     <<"i", "t", " ", "s", "t", "a", "r", "t", "e", "d">>,
   \* PROCESSING started
   TextProcessingUpper |->
     <<"P", "R", "O", "C", "E", "S", "S", "I", "N", "G", " ", "s", "t", "a", "r", "t", "e", "d">>,
   \* hello
   TextHello |->
     <<"h", "e", "l", "l", "o">>,
   \* null
   MsgNull |->
     <<"n", "u", "l", "l">>,
   \* "processing started" (a JSON string)
   MsgQuotedStarted |->
     <<"\"", "p", "r", "o", "c", "e", "s", "s", "i", "n", "g", " ", "s", "t", "a", "r", "t", "e", "d", "\"">>
  ]

ProtocolMessages ==
  InboundMessages \cup {ProtocolTexts[n] : n \in DOMAIN ProtocolTexts}

SetupErrors == {NotAllowedError, NotFoundError, NotReadableError}

Sessions == 1..MaxSessions

\* ------------------------------------------------------------ actions
Init ==
  /\ status = DISCONNECTED
  /\ errorMessage = NoMessage
  /\ config = DEFAULT_CONFIG
  /\ transcripts = <<>>
  /\ processStatus = "idle"
  /\ vadActive = FALSE
  /\ wsRef = NULL
  /\ audioContextRef = NULL
  /\ processorRef = NULL
  /\ streamRef = NULL
  /\ analyserRef = NULL
  /\ audioQueue = <<>>
  /\ sess = [k \in Sessions |-> NoSession]
  /\ nSessions = 0
  /\ micApi \in BOOLEAN
  /\ pageSecure \in BOOLEAN
  /\ statusLog = <<DISCONNECTED>>
  /\ lastEvent = <<"init", 0>>
  /\ lastMessage = <<>>
  /\ lastInput = <<>>
  /\ isSettingsOpen = FALSE
  /\ formData = DEFAULT_CONFIG
  /\ warned = FALSE
  /\ util = NoCall
  /\ worker = NoWorker
  /\ pushed = <<>>
  /\ sentFrames = <<>>
  /\ vadChanges = 0
  /\ uncaught = FALSE
  /\ nChunks = 0
  /\ nMessages = 0

\* a toggle that starts whatever the status is (sensitivity of C9)
ToggleStartUnguarded ==
  /\ nSessions < MaxSessions
  /\ Commit(startRecording(Cur, config, errorMessage), <<"start", nSessions + 1>>)
  /\ UNCHANGED <<nChunks, nMessages>>

\* toggleRecording while disconnected or errored
ToggleStart ==
  /\ status \notin {CONNECTED, CONNECTING}
  /\ nSessions < MaxSessions
  /\ Commit(startRecording(Cur, config, errorMessage), <<"start", nSessions + 1>>)
  /\ UNCHANGED <<nChunks, nMessages>>

\* toggleRecording while connecting or connected
ToggleStop ==
  /\ status \in {CONNECTED, CONNECTING}
  /\ Commit(stopRecording(Cur), <<"stop", 0>>)
  /\ UNCHANGED <<nChunks, nMessages>>

\* getUserMedia of session k rejects
MicRejected(k, err) ==
  /\ sess[k].pc = "awaitMic"
  /\ Commit(startRejected(Cur, k, err), <<"rejected", k>>)
  /\ UNCHANGED <<nChunks, nMessages>>

\* getUserMedia of session k resolves
MicGranted(k, rate, ctorThrows) ==
  /\ sess[k].pc = "awaitMic"
  /\ IF ctorThrows THEN SocketCtorMayThrow(sess[k].cfg.wsUrl)
                   ELSE SocketCtorMayReturn(sess[k].cfg.wsUrl)
  /\ Commit(startGranted(Cur, k, rate, ctorThrows), <<"granted", k>>)
  /\ UNCHANGED <<nChunks, nMessages>>

\* the socket of session k opens: ws.onopen only logs
SocketOpened(k) ==
  /\ sess[k].ws = "CONNECTING"
  /\ Commit([Cur EXCEPT !.sess[k].ws = "OPEN"], <<"open", k>>)
  /\ UNCHANGED <<nChunks, nMessages>>

\* a text message arrives on the open socket of session k
SocketMessage(k, rawData) ==
  /\ sess[k].ws = "OPEN"
  /\ nMessages < MaxMessages
  /\ MessageRestarts(rawData) => nSessions < MaxSessions
  /\ Commit([handleWebSocketMessage(Cur, rawData) EXCEPT !.lastMessage = rawData],
            <<"message", k>>)
  /\ nMessages' = nMessages + 1
  /\ UNCHANGED nChunks

\* the connection of session k fails (network, refusal, or close() while
\* connecting): readyState CLOSED, then the error event, then the close event
SocketErrored(k) ==
  /\ sess[k].ws \in {"CONNECTING", "OPEN"} \/ (sess[k].ws = "CLOSING" /\ sess[k].wsFailed)
  /\ Commit(onclose(onerror([Cur EXCEPT !.sess[k].ws = "CLOSED"], k), k), <<"error", k>>)
  /\ UNCHANGED <<nChunks, nMessages>>

\* the connection of session k closes without an error event
SocketClosed(k) ==
  /\ sess[k].ws = "OPEN" \/ (sess[k].ws = "CLOSING" /\ ~sess[k].wsFailed)
  /\ Commit(onclose([Cur EXCEPT !.sess[k].ws = "CLOSED"], k), <<"close", k>>)
  /\ UNCHANGED <<nChunks, nMessages>>

\* the ScriptProcessor of session k delivers a chunk
AudioProcess(k, seed, maxChunks) ==
  /\ sess[k].proc = "installed"
  /\ sess[k].ctx = "running"
  /\ nChunks < maxChunks
  /\ Commit([onaudioprocess(Cur, k, Chunks[seed]) EXCEPT !.lastInput = Chunks[seed]],
            <<"audio", k>>)
  /\ nChunks' = nChunks + 1
  /\ UNCHANGED nMessages

Next ==
  \/ ToggleStart
  \/ ToggleStop
  \/ \E k \in Sessions, err \in SetupErrors : MicRejected(k, err)
  \/ \E k \in Sessions, rate \in SampleRates, ctorThrows \in BOOLEAN : MicGranted(k, rate, ctorThrows)
  \/ \E k \in Sessions : SocketOpened(k)
  \/ \E k \in Sessions, m \in InboundMessages : SocketMessage(k, m)
  \/ \E k \in Sessions : SocketErrored(k)
  \/ \E k \in Sessions : SocketClosed(k)
  \/ \E k \in Sessions, seed \in ChunkSeeds : AudioProcess(k, seed, MaxChunks)

Spec == Init /\ [][Next]_vars

\* The capture pipeline of one capture session, the first: the microphone is
\* granted at any of the hardware rates, the server never speaks, the socket
\* opens and closes, the user may stop, and the chunks vary.
AudioSampleRates == {8000, 16000, 44100, 48000}

InitAudio == Init /\ micApi /\ ~pageSecure

NextAudio ==
  \/ nSessions = 0 /\ ToggleStart
  \/ ToggleStop
  \/ \E k \in Sessions, rate \in AudioSampleRates : MicGranted(k, rate, FALSE)
  \/ \E k \in Sessions : SocketOpened(k)
  \/ \E k \in Sessions : SocketClosed(k)
  \/ \E k \in Sessions, seed \in AllChunkSeeds : AudioProcess(k, seed, AudioChunks)

SpecAudio == InitAudio /\ [][NextAudio]_vars

\* ------------------------------------------------------------ settings
\* the settings button (disabled while connected): setIsSettingsOpen(true)
OpenSettings ==
  /\ status # CONNECTED
  /\ ~isSettingsOpen
  /\ Commit([Cur EXCEPT !.isSettingsOpen = TRUE], <<"settings", 0>>)
  /\ UNCHANGED <<nChunks, nMessages>>

\* what the user types into the dialog's three inputs: <<name, value>>,
\* value a string for wsUrl and Number(value) for the two thresholds
SecureUrl == <<"w", "s", "s", ":", "/", "/", "h">>
SettingInputs ==
  {<<"wsUrl", SecureUrl>>, <<"wsUrl", DefaultUrl>>,
   <<"silenceThreshold", Num(3, 4)>>}

\* SettingsModal.handleChange
handleChange(form, name, value) == [form EXCEPT ![name] = value]

ChangeSetting(name, value) ==
  /\ isSettingsOpen
  /\ Commit([Cur EXCEPT !.formData = handleChange(@, name, value)], <<"change", 0>>)
  /\ UNCHANGED <<nChunks, nMessages>>

\* SettingsModal.handleSave: onSave(formData), which is setConfig, then onClose()
SaveSettings ==
  /\ isSettingsOpen
  /\ Commit([Cur EXCEPT !.config = formData, !.isSettingsOpen = FALSE], <<"save", 0>>)
  /\ UNCHANGED <<nChunks, nMessages>>

\* the dialog's X button: onClose(); the form keeps what was typed
CloseSettings ==
  /\ isSettingsOpen
  /\ Commit([Cur EXCEPT !.isSettingsOpen = FALSE], <<"dismiss", 0>>)
  /\ UNCHANGED <<nChunks, nMessages>>

\* One session and the settings dialog together: the user edits and saves
\* settings before and during the session, on a secure or an insecure page.
InitSettings == Init /\ micApi

NextSettings ==
  \/ nSessions = 0 /\ ToggleStart
  \/ ToggleStop
  \/ \E k \in Sessions, rate \in SampleRates, ctorThrows \in BOOLEAN :
       MicGranted(k, rate, ctorThrows)
  \/ \E k \in Sessions : SocketOpened(k)
  \/ \E k \in Sessions, seed \in ChunkSeeds : AudioProcess(k, seed, MaxChunks)
  \/ OpenSettings
  \/ \E input \in SettingInputs : ChangeSetting(input[1], input[2])
  \/ SaveSettings
  \/ CloseSettings

SpecSettings == InitSettings /\ [][NextSettings]_vars

\* ---------------------------------------------------- audio utilities
\* the arguments the utilities are called with: sample buffers of 0 to 8
\* samples, inside and outside [-1, 1], and sample rates
UtilInputs ==
  [buffers |->
     {ArrayOf([i \in 1..n |-> Num(i - 3, 4)], n) : n \in 0..8}
       \cup {<<Whole(1)>>, <<Whole(-1)>>, <<Num(3, 2), Whole(-2), Num(1, 3)>>,
             <<Num(1, 1000), Num(-1, 1000), Num(-1, 3), Num(999, 1000)>>},
   rates |-> {8000, 16000, 24000, 44100, 48000}]

\* the state after a task other than a handler of the App
UtilCalled(call) ==
  /\ util' = call
  /\ UNCHANGED <<status, errorMessage, config, transcripts, processStatus, vadActive,
                 wsRef, audioContextRef, processorRef, streamRef, analyserRef, audioQueue,
                 sess, nSessions, micApi, pageSecure, statusLog, lastEvent, lastMessage,
                 lastInput, isSettingsOpen, formData, warned, worker, pushed, sentFrames,
                 vadChanges, uncaught, nChunks, nMessages>>

\* downsampleBuffer(buffer, inputSampleRate, outputSampleRate)
Resample(buffer, inputSampleRate, outputSampleRate) ==
  LET r == downsampleBuffer(buffer, inputSampleRate, outputSampleRate)
  IN  UtilCalled(<<"downsampleBuffer", buffer, inputSampleRate, outputSampleRate,
                   r.threw, r.result>>)

\* floatTo16BitPCM(input)
Encode(input) ==
  UtilCalled(<<"floatTo16BitPCM", input, 0, 0, FALSE, floatTo16BitPCM(input)>>)

\* The audio utilities on their own, called with every buffer and every pair
\* of rates of UtilInputs.
NextUtils ==
  \/ \E buffer \in UtilInputs.buffers, inputSampleRate, outputSampleRate \in UtilInputs.rates :
       Resample(buffer, inputSampleRate, outputSampleRate)
  \/ \E input \in UtilInputs.buffers : Encode(input)

SpecUtils == InitAudio /\ [][NextUtils]_vars

\* The message interpreter on its own: one session is started by the user on
\* a page that has a microphone, its socket opens, and the server sends any of
\* the protocol's texts; a system response restarts the session.
InitMsg == Init /\ micApi /\ ~pageSecure

NextMsg ==
  \/ nSessions = 0 /\ ToggleStart
  \/ \E k \in Sessions : MicGranted(k, TARGET_SAMPLE_RATE, FALSE)
  \/ \E k \in Sessions : SocketOpened(k)
  \/ \E k \in Sessions : SocketClosed(k)
  \/ \E k \in Sessions, m \in ProtocolMessages : SocketMessage(k, m)

SpecMsg == InitMsg /\ [][NextMsg]_vars

\* The restart on a system response: the first session receives a system
\* response; the microphone is granted to every start, every socket opens,
\* and the server greets each later session with {"type":"connected"}; the
\* stopped socket's close event arrives at any time.
\* The settings dialog and the automatic restart together: the user saves
\* settings whenever the button is enabled and starts a session; the server
\* greets it and sends the system response {"type":"AI_RESPONSE","text":"ok"}.
NextSaved ==
  \/ nSessions = 0 /\ ToggleStart
  \/ \E k \in Sessions : MicGranted(k, TARGET_SAMPLE_RATE, FALSE)
  \/ \E k \in Sessions : SocketOpened(k)
  \/ \E k \in Sessions, m \in {MsgConnected, MsgAiResponse} : SocketMessage(k, m)
  \/ OpenSettings
  \/ \E input \in SettingInputs : ChangeSetting(input[1], input[2])
  \/ SaveSettings
  \/ CloseSettings

SpecSaved == InitSettings /\ [][NextSaved]_vars

\* ------------------------------------------------- the two capture chains
\* frame durations in ms: whole numbers, as the configuration's type says
FrameDurations == {8, 20, 32}
ChainConfigs ==
  {[DEFAULT_CONFIG EXCEPT !.frameDurationMs = Whole(d)] : d \in FrameDurations}

\* a capture is started with cfg in the foreground (startRecording) and in
\* the worker (INIT)
ChainsStart(cfg) ==
  /\ nSessions = 0
  /\ status \notin {CONNECTED, CONNECTING}
  /\ Commit([startRecording(Cur, cfg, errorMessage) EXCEPT !.worker = initialize(worker, cfg)],
            <<"start", 1>>)
  /\ UNCHANGED <<nChunks, nMessages>>

\* both sockets open
ChainsOpened(k) ==
  /\ sess[k].ws = "CONNECTING"
  /\ Commit([Cur EXCEPT !.sess[k].ws = "OPEN", !.worker = workerSocketOpen(worker)],
            <<"open", k>>)
  /\ UNCHANGED <<nChunks, nMessages>>

\* the same chunk at the same input rate goes to the audio callback and, as
\* AUDIO_DATA, to the worker
ChainsAudio(k, seed) ==
  /\ sess[k].proc = "installed"
  /\ sess[k].ctx = "running"
  /\ nChunks < AudioChunks
  /\ Commit([onaudioprocess(Cur, k, Chunks[seed])
               EXCEPT !.lastInput = Chunks[seed],
                      !.worker = processAudio(worker, Chunks[seed], sess[k].inputRate)],
            <<"audio", k>>)
  /\ nChunks' = nChunks + 1
  /\ UNCHANGED nMessages

\* The foreground chain and the worker chain side by side: one capture with
\* any of the configurations at any of the hardware rates, the sockets open
\* and stay open, and both chains are fed the same chunks.
NextChains ==
  \/ \E cfg \in ChainConfigs : ChainsStart(cfg)
  \/ \E k \in Sessions, rate \in AudioSampleRates : MicGranted(k, rate, FALSE)
  \/ \E k \in Sessions : ChainsOpened(k)
  \/ \E k \in Sessions, seed \in AllChunkSeeds : ChainsAudio(k, seed)

SpecChains == InitAudio /\ [][NextChains]_vars

\* {"type":"connected"} decoded; the text is a constant, so it is decoded once
Greeting == JSONParse(MsgConnected)

\* the server accepts session k: its greeting arrives on the open socket
\* (SocketMessage(k, MsgConnected), which the try block handles)
SocketGreeted(k) ==
  /\ sess[k].ws = "OPEN"
  /\ nMessages < MaxMessages
  /\ Greeting.ok /\ ~StructuredThrows(Greeting.val)
  /\ Commit([structuredMessage(Cur, Greeting.val) EXCEPT !.lastMessage = MsgConnected],
            <<"message", k>>)
  /\ nMessages' = nMessages + 1
  /\ UNCHANGED nChunks

\* the first session is opened and receives a system response; the session
\* the handler starts is granted the microphone and greeted by the server,
\* and the socket the handler closed reports its close at any later time
NextRestart ==
  \/ nSessions = 0 /\ ToggleStart
  \/ \E k \in Sessions, rate \in SampleRates : MicGranted(k, rate, FALSE)
  \/ \E k \in Sessions : SocketOpened(k)
  \/ \E m \in {x \in ProtocolMessages : MessageRestarts(x)} : SocketMessage(1, m)
  \/ \E k \in Sessions \ {1} : SocketGreeted(k)
  \/ \E k \in Sessions : sess[k].stopped /\ SocketClosed(k)

\* the microphone is granted, the socket opens and the server greets it
SpecRestart ==
  /\ InitSettings
  /\ [][NextRestart]_vars
  /\ \A k \in Sessions :
       /\ WF_vars(\E rate \in SampleRates : MicGranted(k, rate, FALSE))
       /\ WF_vars(SocketOpened(k))
       /\ WF_vars(k # 1 /\ SocketGreeted(k))

\* ============================================================ properties
\* the task that has just run is handler `kind` of session k
Fired(kind, k) ==
  /\ lastEvent' = <<kind, k>>
  /\ lastEvent' # lastEvent \/ nChunks' # nChunks \/ nMessages' # nMessages

RECURSIVE Flatten(_)
Flatten(frames) ==
  IF frames = <<>> THEN <<>> ELSE Head(frames) \o Flatten(Tail(frames))

\* the frame sample count of the current configuration
FrameSize == Trunc(VAD_SAMPLES_PER_FRAME(config))

\* C1: within a capture session the frames sent, concatenated, are the pushed
\* samples in order, truncated to the largest multiple of the frame sample
\* count; the samples not yet sent are exactly the queue (none is lost,
\* duplicated or reordered), and every frame has the frame sample count.
C1_SentFramesArePushedPrefix ==
  LET whole == (Len(pushed) \div FrameSize) * FrameSize
  IN  /\ Flatten(sentFrames) = SubSeq(pushed, 1, whole)
      /\ audioQueue = SubSeq(pushed, whole + 1, Len(pushed))
      /\ \A i \in 1..Len(sentFrames) : Len(sentFrames[i]) = FrameSize

\* C1 witness: chunks whose resampled length is no multiple of the frame have
\* produced a frame and left a remainder in the queue
C1_Witness ==
  /\ lastEvent[1] = "audio"
  /\ sentFrames # <<>>
  /\ audioQueue # <<>>
  /\ Len(pushed) > FrameSize

\* C2 as stated: a send to a socket happens only while the status is
\* Connected, and a chunk arriving in any other status changes neither the
\* queue nor anything else.
C2_SendOnlyWhenConnected ==
  [][ /\ (\E k \in Sessions : sess'[k].sent # sess[k].sent) => status = CONNECTED
      /\ (nChunks' # nChunks /\ status # CONNECTED) =>
            /\ audioQueue' = audioQueue
            /\ sess' = sess
            /\ uncaught' = uncaught ]_vars

\* C2 amended: a send happens only in an audio callback and only on the socket
\* wsRef references while that socket is open, whatever the status; a chunk
\* arriving while wsRef references no open socket is dropped: nothing is
\* queued, nothing is sent, no state changes and no error is raised.
C2_SendOnlyOnOpenSocket ==
  [][ /\ (\E k \in Sessions : sess'[k].sent # sess[k].sent) =>
            /\ nChunks' # nChunks
            /\ wsRef # NULL
            /\ sess[wsRef].ws = "OPEN"
            /\ \A k \in Sessions : k # wsRef => sess'[k].sent = sess[k].sent
      /\ (nChunks' # nChunks /\ (wsRef = NULL \/ sess[wsRef].ws # "OPEN")) =>
            /\ audioQueue' = audioQueue
            /\ sess' = sess
            /\ vadActive' = vadActive
            /\ status' = status
            /\ uncaught' = uncaught ]_vars

\* C2 witness: a frame has been sent while the status is still Connecting
C2_Witness ==
  /\ lastEvent[1] = "audio"
  /\ statusLog = <<CONNECTING>>
  /\ wsRef # NULL
  /\ sess[wsRef].sent # <<>>

\* the sockets that are connecting or open
LiveTransports == {k \in Sessions : sess[k].ws \in {"CONNECTING", "OPEN"}}

\* C3: at every moment at most one transport is connecting or open.
C3_AtMostOneLiveTransport == Cardinality(LiveTransports) <= 1

\* C3: the state in which two sessions each own a live socket
C3_TwoLiveTransports ==
  /\ Cardinality(LiveTransports) = 2
  /\ wsRef # NULL

\* the audio callback of session k was removed by cleanupAudio, or its socket
\* was closed by cleanupWS: stopRecording has run on the session
StoppedAudio(k) == sess[k].proc = "detached"
StoppedSocket(k) == sess[k].stopped

\* C4: once stopRecording has run on a session, no callback of that session
\* fires and changes status, error message, activity state, speech flag,
\* transcripts or the audio resources.
C4_NoCallbackAfterStop ==
  [][ \A k \in Sessions :
        (\/ StoppedAudio(k) /\ Fired("audio", k)
         \/ StoppedSocket(k) /\ \E kind \in {"message", "error", "close"} : Fired(kind, k))
        => UNCHANGED <<status, errorMessage, processStatus, vadActive, transcripts,
                       audioContextRef, processorRef, streamRef, audioQueue>> ]_vars

\* C4: the error event of a socket that stopRecording closed has set Errored
C4_StaleErrorReported ==
  /\ lastEvent[1] = "error"
  /\ sess[lastEvent[2]].stopped
  /\ statusLog[1] = DISCONNECTED
  /\ status = ERROR
  /\ errorMessage # NoMessage

\* what C5 requires of the state s that stopRecording leaves
TornDown(s) ==
  /\ s.analyserRef = NULL
  /\ \A k \in Sessions : s.sess[k].stream # "live"
  /\ \A k \in Sessions : s.sess[k].ctx # "running"
  /\ s.audioQueue = <<>>
  /\ s.vadActive = FALSE
  /\ \A k \in Sessions : s.sess[k].ws \notin {"CONNECTING", "OPEN"}
  /\ s.wsRef = NULL

\* C5: stopRecording invoked from any reachable state leaves the analysis tap
\* detached, every hardware track stopped, the audio context released, the
\* queue empty, the speech flag false, and the transport closed and no longer
\* referenced.
C5_StopReleasesEverything == TornDown(stopRecording(Cur))

\* C5: after a stop the analyser of the stopped session is still referenced
C5_AnalyserKeptAfterStop ==
  /\ lastEvent = <<"stop", 0>>
  /\ analyserRef # NULL
  /\ audioContextRef = NULL

\* the state a caller of stopRecording can observe
Observable(s) ==
  [status |-> s.status, errorMessage |-> s.errorMessage, processStatus |-> s.processStatus,
   vadActive |-> s.vadActive, transcripts |-> s.transcripts, audioQueue |-> s.audioQueue,
   wsRef |-> s.wsRef, audioContextRef |-> s.audioContextRef,
   processorRef |-> s.processorRef, streamRef |-> s.streamRef,
   analyserRef |-> s.analyserRef, sess |-> s.sess, uncaught |-> s.uncaught]

\* C6: from every reachable state, stopRecording called twice in a row leaves
\* the same status, activity state, speech flag, queue, resource handles and
\* transport as called once, and the second call raises no error.
C6_StopIdempotent ==
  Observable(stopRecording(stopRecording(Cur))) = Observable(stopRecording(Cur))

\* C6 witness: a state with a live session, where the first stop changes the
\* state and the second has nothing left to release
C6_Witness ==
  /\ wsRef # NULL
  /\ processorRef # NULL
  /\ audioQueue # <<>>
  /\ Observable(stopRecording(Cur)) # Observable(Cur)
  /\ Observable(stopRecording(stopRecording(Cur))) = Observable(stopRecording(Cur))

\* C7: after the error event of a socket the status is Errored and the whole
\* session is torn down: audio resources released, queue empty, speech flag
\* false, and the transport closed and no longer referenced; no exception
\* escapes the handler.
C7_ErrorTearsDownTransport ==
  lastEvent[1] = "error" =>
    /\ status = ERROR
    /\ processorRef = NULL
    /\ streamRef = NULL
    /\ audioContextRef = NULL
    /\ audioQueue = <<>>
    /\ vadActive = FALSE
    /\ ~uncaught
    /\ wsRef = NULL
    /\ LiveTransports = {}

\* C7: the error event of the current socket has torn down the audio side
\* only; the failed socket is still referenced
C7_FailedSocketStillReferenced ==
  /\ lastEvent[1] = "error"
  /\ wsRef = lastEvent[2]
  /\ status = ERROR
  /\ processorRef = NULL

\* a status change the claim allows within a session
AllowedChange(a, b) ==
  \/ a = b
  \/ a = CONNECTING /\ b = CONNECTED
  \/ a \in {CONNECTING, CONNECTED} /\ b \in {ERROR, DISCONNECTED}

\* C8: the status only changes from Connecting to Connected, or from
\* Connecting or Connected to Errored or Disconnected; it becomes Connecting
\* only when a task starts a new session.
C8_StatusMonotonic ==
  [][ \A i \in 1..(Len(statusLog') - 1) :
        \/ AllowedChange(statusLog'[i], statusLog'[i + 1])
        \/ statusLog'[i + 1] = CONNECTING /\ nSessions' = nSessions + 1 ]_vars

\* C8: the status has become Connected from Disconnected with no new session:
\* the only session was stopped while its start was still pending
C8_ConnectedAfterStop ==
  /\ lastEvent = <<"message", 1>>
  /\ statusLog = <<DISCONNECTED, CONNECTED>>
  /\ nSessions = 1

\* position of the last Connecting a task set (1 if it set none): the
\* setStatus of the startRecording the task ran
RECURSIVE LastConnecting(_, _)
LastConnecting(log, i) ==
  IF i <= 1 \/ log[i] = CONNECTING THEN i ELSE LastConnecting(log, i - 1)

\* the status immediately before startRecording began in the task just run
StatusBeforeStart ==
  LET i == LastConnecting(statusLog', Len(statusLog'))
  IN  IF i <= 1 THEN "none" ELSE statusLog'[i - 1]

\* C9 as stated: whenever startRecording begins, the status immediately
\* before is Disconnected and the status it sets first is Connecting.
C9_StartsFromDisconnected ==
  [][ nSessions' = nSessions + 1 =>
        /\ LastConnecting(statusLog', Len(statusLog')) > 1
        /\ StatusBeforeStart = DISCONNECTED ]_vars

\* C9 amended: whenever startRecording begins (by toggle or by the restart on
\* a system response), the status immediately before is Disconnected or
\* Errored, never Connecting or Connected, and the status it sets first is
\* Connecting; the task ends in Connecting, or in Errored when the microphone
\* API is missing.
C9_StartsFromIdle ==
  [][ nSessions' = nSessions + 1 =>
        /\ LastConnecting(statusLog', Len(statusLog')) > 1
        /\ StatusBeforeStart \in {DISCONNECTED, ERROR}
        /\ status' = IF micApi THEN CONNECTING ELSE ERROR ]_vars

\* C9 witness: a second session has been started by toggle after the first
\* one failed during setup and left the status Errored
C9_Witness ==
  /\ lastEvent = <<"start", 2>>
  /\ sess[1].pc = "failed"
  /\ statusLog = <<ERROR, CONNECTING>>

\* the message startRecording reports for a setup failure
FailureMessage(name) ==
  CASE name = "NotAllowedError" -> PermissionDeniedMessage
    [] name = "NotFoundError" -> NoMicrophoneMessage
    [] name = "Error" -> MicUnsupportedMessage
    [] OTHER -> UnknownSetupMessage

\* the start of session k was aborted before the microphone was obtained
StartAborted(k) ==
  /\ k \in Sessions
  /\ sess[k].pc = "failed"
  /\ sess[k].failure \in {"Error", "NotAllowedError", "NotFoundError", "NotReadableError"}

\* C10: when the microphone API is missing, permission is denied or no input
\* device exists, the start is aborted: the task ends with status Errored and
\* the one message for that failure, and the session has created no
\* transport, no stream, no audio context and no audio callback.
C10_SetupFailureAborts ==
  (lastEvent[1] \in {"start", "rejected"} /\ StartAborted(lastEvent[2])) =>
    LET k == lastEvent[2]
    IN  /\ status = ERROR
        /\ statusLog[Len(statusLog)] = ERROR
        /\ errorMessage = FailureMessage(sess[k].failure)
        /\ sess[k].ws = "none"
        /\ wsRef # k
        /\ sess[k].proc = "none"
        /\ processorRef # k
        /\ sess[k].stream = "none"
        /\ sess[k].ctx = "none"

\* C10 witness: getUserMedia has rejected with NotAllowedError
C10_Witness ==
  /\ lastEvent[1] = "rejected"
  /\ StartAborted(lastEvent[2])
  /\ sess[lastEvent[2]].failure = "NotAllowedError"
  /\ errorMessage = PermissionDeniedMessage

\* the buffers ws.send receives for the frames
Encoded(frames) == [i \in 1..Len(frames) |-> floatTo16BitPCM(frames[i])]

\* C11: every frame handed to the socket has exactly the frame sample count
\* and is encoded to exactly twice as many bytes; what the socket received is
\* the encoding of those whole frames, so no partial frame is taken or sent.
C11_WholeFramesOnly ==
  /\ \A i \in 1..Len(sentFrames) : Len(sentFrames[i]) = FrameSize
  /\ \A k \in Sessions : \A j \in 1..Len(sess[k].sent) : Len(sess[k].sent[j]) = 2 * FrameSize
  /\ sentFrames # <<>> => (wsRef # NULL /\ sess[wsRef].sent = Encoded(sentFrames))

\* C11 witness: two frames have been sent, each as 1024 bytes
C11_Witness ==
  /\ wsRef # NULL
  /\ Len(sess[wsRef].sent) = 2
  /\ Len(sentFrames) = 2
  /\ Len(sess[wsRef].sent[2]) = 2 * FrameSize

\* C12: an audio callback that runs with the socket open leaves fewer samples
\* in the queue than one frame, and sends in that same callback every frame
\* the queue and the pushed samples make up.
C12_NoFrameDeferred ==
  [][ (nChunks' # nChunks /\ SocketReady(Cur) /\ uncaught' = uncaught) =>
        /\ Len(audioQueue') < FrameSize
        /\ Len(sentFrames') - Len(sentFrames)
             = (Len(audioQueue) + Len(pushed') - Len(pushed)) \div FrameSize ]_vars

\* C12 witness: three chunks resampled from 48000 Hz (171 samples each) have
\* completed one frame, sent at once, and one sample waits
C12_Witness ==
  /\ lastEvent[1] = "audio"
  /\ Len(pushed) = FrameSize + 1
  /\ Len(sentFrames) = 1
  /\ Len(audioQueue) = 1

\* the task that has just run handled the inbound text m
Received(m) == lastMessage' = m /\ \E k \in Sessions : Fired("message", k)

\* m is a keyed record (a JSON object), and its fields
IsRecord(m) == JSONParse(m).ok /\ JSONParse(m).val.t = "object"
Field(m, key) == GetProp(JSONParse(m).val, key)

\* m is a record whose type, compared case-insensitively, is one of types
TypeAmong(m, types) ==
  /\ IsRecord(m)
  /\ Field(m, T_TYPE).t = "string"
  /\ ToUpperCase(Field(m, T_TYPE).s) \in types

\* C13 as stated: a transcript-type record whose text is a non-empty string
\* appends exactly one user transcript with the trimmed text, and the activity
\* state is idle afterwards.
C13_TranscriptAppended ==
  [][ \A m \in ProtocolMessages :
        (/\ Received(m)
         /\ TypeAmong(m, TRANSCRIPT_TYPES)
         /\ Field(m, T_TEXT).t = "string"
         /\ Field(m, T_TEXT).s # <<>>)
        => /\ transcripts' = Append(transcripts, <<Trim(Field(m, T_TEXT).s), "user">>)
           /\ processStatus' = "idle" ]_vars

\* C13 amended: a transcript-type record whose text is a string that is not
\* empty after trimming appends exactly one user transcript with the trimmed
\* text; one whose text is a string of white space only, or empty, appends
\* nothing; the activity state is idle afterwards in both cases.
C13_TrimmedTranscriptAppended ==
  [][ \A m \in ProtocolMessages :
        (/\ Received(m)
         /\ TypeAmong(m, TRANSCRIPT_TYPES)
         /\ Field(m, T_TEXT).t = "string")
        => /\ transcripts' = IF Trim(Field(m, T_TEXT).s) # <<>>
                             THEN Append(transcripts, <<Trim(Field(m, T_TEXT).s), "user">>)
                             ELSE transcripts
           /\ processStatus' = "idle" ]_vars

\* C13 witness: {"type":"transcription","text":" hi "} has appended "hi"
C13_Witness ==
  /\ lastMessage = ProtocolTexts.MsgTranscriptionPadded
  /\ transcripts # <<>>
  /\ transcripts[Len(transcripts)] = <<<<"h", "i">>, "user">>
  /\ processStatus = "idle"

\* what follows a prefix of m, trimmed
TrimmedRemainder(m, prefix) == Trim(SubSeq(m, Len(prefix) + 1, Len(m)))

\* C14: a text that is no well-formed structured message and begins with
\* "VOICE FEEDBACK:" appends exactly one system transcript whose text is the
\* trimmed remainder; one that begins with "TRANSCRIPTION:" appends exactly
\* one user transcript whose text is the trimmed remainder; the activity
\* state is idle afterwards.
C14_LegacyPrefixes ==
  [][ \A m \in ProtocolMessages :
        (Received(m) /\ ~JSONParse(m).ok) =>
          /\ StartsWith(m, VOICE_FEEDBACK_PREFIX) =>
               /\ transcripts' = Append(transcripts,
                                        <<TrimmedRemainder(m, VOICE_FEEDBACK_PREFIX), "system">>)
               /\ processStatus' = "idle"
          /\ StartsWith(m, TRANSCRIPTION_PREFIX) =>
               /\ transcripts' = Append(transcripts,
                                        <<TrimmedRemainder(m, TRANSCRIPTION_PREFIX), "user">>)
               /\ processStatus' = "idle" ]_vars

\* C14 witness: "VOICE FEEDBACK: all done" has appended the system transcript
\* "all done"
C14_Witness ==
  /\ lastMessage = ProtocolTexts.LegacyVoiceFeedback
  /\ transcripts # <<>>
  /\ transcripts[Len(transcripts)] = <<<<"a", "l", "l", " ", "d", "o", "n", "e">>, "system">>
  /\ processStatus = "idle"

\* m parses as a keyed record that has a type field
HasTypeField(m) == IsRecord(m) /\ Field(m, T_TYPE).t # "undefined"

\* m, trimmed, begins with one of the two legacy prefixes
LegacyPrefixed(m) ==
  \/ StartsWith(Trim(m), VOICE_FEEDBACK_PREFIX)
  \/ StartsWith(Trim(m), TRANSCRIPTION_PREFIX)

\* the message step leaves connection state, transcripts and the capture
\* session as they were
SessionUnchanged ==
  UNCHANGED <<status, errorMessage, transcripts, vadActive, wsRef, audioContextRef,
              processorRef, streamRef, analyserRef, audioQueue, sess, nSessions>>

\* the try block is left by an exception: JSON.parse rejects m or the
\* dispatch throws on the parsed value
DecodeThrows(m) == ~JSONParse(m).ok \/ StructuredThrows(JSONParse(m).val)

\* the activity state the "started" keywords of a text select
StartedActivity(m, before) ==
  IF ~Includes(Trim(m), W_STARTED) THEN before
  ELSE IF Includes(ToLowerCase(Trim(m)), W_PROCESSING) THEN "processing"
  ELSE IF Includes(ToLowerCase(Trim(m)), W_TRANSCRIPTION) THEN "transcribing"
  ELSE before

\* C15 as stated: a message that is neither a keyed record with a type nor a
\* text with a legacy prefix changes nothing.
C15_MalformedIgnored ==
  [][ \A m \in ProtocolMessages :
        (Received(m) /\ ~HasTypeField(m) /\ ~LegacyPrefixed(m)) =>
          (SessionUnchanged /\ UNCHANGED processStatus) ]_vars

\* C15: a message that is neither a keyed record with a type nor a text with
\* a legacy prefix leaves connection state, transcripts and the capture
\* session unchanged; the activity state is unchanged too unless the decode
\* throws and the text contains "started", when it becomes processing or
\* transcribing by keyword.
C15_MalformedIgnoredUnlessStarted ==
  [][ \A m \in ProtocolMessages :
        (Received(m) /\ ~HasTypeField(m) /\ ~LegacyPrefixed(m)) =>
          /\ SessionUnchanged
          /\ processStatus' = IF DecodeThrows(m) THEN StartedActivity(m, processStatus)
                              ELSE processStatus ]_vars

\* C15 witness: "{not json" arrived on the open socket while the activity
\* state was processing, and nothing has changed
C15_Witness ==
  /\ lastMessage = ProtocolTexts.TextNotJson
  /\ processStatus = "processing"
  /\ status = CONNECTING
  /\ wsRef # NULL
  /\ transcripts = <<>>

\* C18: the legacy rules are applied only when JSON.parse rejects the text: a
\* message that parses as a keyed record has the effect of the dispatch alone,
\* and none at all when the dispatch cannot read its fields, whatever the
\* text says.
C18_LegacyOnlyOnDecodeFailure ==
  [][ \A m \in ProtocolMessages :
        (Received(m) /\ IsRecord(m)) =>
          /\ StructuredThrows(JSONParse(m).val) =>
               (SessionUnchanged /\ UNCHANGED processStatus)
          /\ ~StructuredThrows(JSONParse(m).val) =>
               /\ processStatus' = structuredMessage(Cur, JSONParse(m).val).processStatus
               /\ transcripts' = structuredMessage(Cur, JSONParse(m).val).transcripts ]_vars

\* C18: the keyed record {"type":7,"note":"processing started"}, first message
\* of the session, has set the activity state to processing: the "started"
\* rule has read it
C18_RecordReadByLegacyRule ==
  /\ lastMessage = ProtocolTexts.MsgNumericType
  /\ nMessages = 1
  /\ processStatus = "processing"

\* the types the switch has a case for
DispatchTable ==
  CONNECTED_TYPES \cup SPEECH_TYPES \cup TRANSCRIPT_TYPES \cup PROCESSING_TYPES
    \cup RESPONSE_TYPES

\* C16: a keyed record whose type is not in the dispatch table changes
\* nothing: connection state, activity state, transcripts and the capture
\* session are as before.
C16_UnknownTypeIgnored ==
  [][ \A m \in ProtocolMessages :
        (Received(m) /\ IsRecord(m) /\ ~TypeAmong(m, DispatchTable)) =>
          (SessionUnchanged /\ UNCHANGED processStatus) ]_vars

\* C16: {"type":7,...}, whose type is in no case of the switch, arrived after
\* {"type":"connected"} had set the activity state to idle, and the activity
\* state is processing
C16_UnknownTypeSetsProcessing ==
  /\ lastMessage = ProtocolTexts.MsgNumericType
  /\ nMessages = 2
  /\ status = CONNECTED
  /\ processStatus = "processing"

\* C17: the activity state after a recognized type depends on the type alone:
\* transcribing for the speech types, processing for the processing types,
\* idle with status connected for the connected types, idle for the
\* transcription and the system-response types.
C17_ActivityByTypeAlone ==
  [][ \A m \in ProtocolMessages :
        Received(m) =>
          /\ TypeAmong(m, SPEECH_TYPES) => processStatus' = "transcribing"
          /\ TypeAmong(m, PROCESSING_TYPES) => processStatus' = "processing"
          /\ TypeAmong(m, CONNECTED_TYPES) => (processStatus' = "idle" /\ status' = CONNECTED)
          /\ TypeAmong(m, TRANSCRIPT_TYPES \cup RESPONSE_TYPES) => processStatus' = "idle" ]_vars

\* C17: {"type":"transcription","text":5,"note":"processing started"} arrived
\* after {"type":"speech_start"}, and the activity state is processing, not idle
C17_TranscriptionLeavesProcessing ==
  /\ lastMessage = ProtocolTexts.MsgTranscriptionNumericText
  /\ nMessages = 2
  /\ processStatus = "processing"
  /\ transcripts = <<>>

\* RMS(input) > threshold for a threshold >= 0, as n * threshold^2 < sum of squares
RmsAbove(input, threshold) ==
  NumLess(NumMul(NumMul(threshold, threshold), Whole(Len(input))), SumSquares(input))

\* C19 as stated: every audio callback of a running session, whatever the
\* state of the socket, sets the speech flag to RMS > silenceThreshold.
C19_FlagSetOnEveryCallback ==
  [][ \A k \in Sessions :
        Fired("audio", k) =>
          (vadActive' = RmsAbove(lastInput', sess[k].cfg.silenceThreshold)) ]_vars

\* C19: an audio callback that finds the referenced socket open sets the
\* speech flag to RMS > silenceThreshold, strictly; one that finds no open
\* socket leaves the flag as it was.
C19_FlagSetWhenSocketOpen ==
  [][ \A k \in Sessions :
        Fired("audio", k) =>
          (vadActive' = IF SocketReady(Cur)
                        THEN RmsAbove(lastInput', sess[k].cfg.silenceThreshold)
                        ELSE vadActive) ]_vars

\* C19 witness: the flag was true, and a callback whose chunk has an RMS equal
\* to the threshold has set it to false
C19_Witness ==
  /\ lastEvent = <<"audio", 1>>
  /\ lastInput = Chunks[3]
  /\ SocketReady(Cur)
  /\ vadChanges = 2
  /\ ~vadActive

\* C20: an audio callback reports a change of the speech flag exactly when
\* the flag's value flips, so the changes reported over any run of callbacks
\* are as many as the flips.
C20_ChangeReportedOnFlip ==
  [][ \A k \in Sessions :
        Fired("audio", k) =>
          (vadChanges' = vadChanges + (IF vadActive' # vadActive THEN 1 ELSE 0)) ]_vars

\* C20 witness: two callbacks in a row above the threshold, both with the
\* socket open, and one change reported
C20_Witness ==
  /\ lastEvent = <<"audio", 1>>
  /\ pushed = Chunks[1] \o Chunks[2]
  /\ vadActive
  /\ vadChanges = 1

\* the frames sent by the step that has just run
NewFrames == SubSeq(sentFrames', Len(sentFrames) + 1, Len(sentFrames'))

\* C21: a session keeps the configuration its start saw: the start records
\* the configuration of that moment, no later step (a save in particular)
\* changes it, and every audio callback of the session cuts its frames and
\* sets the speech flag by it, whatever has been saved since.
C21_ConfigFixedPerSession ==
  [][ \A k \in Sessions :
        /\ Fired("start", k) => sess'[k].cfg = config
        /\ sess[k].pc # "unused" => sess'[k].cfg = sess[k].cfg
        /\ (Fired("audio", k) /\ SocketReady(Cur)) =>
             /\ vadActive' = RmsAbove(lastInput', sess[k].cfg.silenceThreshold)
             /\ \A j \in 1..Len(NewFrames) :
                  Len(NewFrames[j]) = Trunc(VAD_SAMPLES_PER_FRAME(sess[k].cfg)) ]_vars

\* C21 witness: the threshold 0.75 was saved while the session was running,
\* and the session's next callback has judged a chunk of RMS 0.65 by the
\* threshold 0.01 it started with, and sent it to the address it started with
C21_Witness ==
  /\ lastEvent = <<"audio", 1>>
  /\ SocketReady(Cur)
  /\ config.silenceThreshold = Num(3, 4)
  /\ config.wsUrl = SecureUrl
  /\ sess[1].cfg = DEFAULT_CONFIG
  /\ vadActive
  /\ Len(sentFrames) = 1

\* C22: no handler of the capture path lets an exception escape: the error
\* the resampler raises inside the audio callback at a hardware rate below
\* the target is caught there.
C22_NoUncaughtException == ~uncaught

\* C22: at a hardware rate of 8000 Hz, with the socket open, the audio
\* callback was left by the resampler's exception: nothing is queued or sent,
\* the status is still connecting and no error message is set
C22_ResamplerErrorEscapes ==
  /\ uncaught
  /\ lastEvent = <<"audio", 1>>
  /\ sess[1].inputRate = 8000
  /\ SocketReady(Cur)
  /\ status = CONNECTING
  /\ errorMessage = NoMessage
  /\ pushed = <<>>

\* frameDurationMs * targetSampleRate / 1000, truncated
FrameSamples(cfg) == Trunc(NumMul(cfg.frameDurationMs, Num(TARGET_SAMPLE_RATE, 1000)))

\* C23: for every configuration a session is started with, the frame size
\* the audio callback drains by is a positive integer, the truncation of
\* frameDurationMs * 16000 / 1000; the drain loop makes at most
\* floor(queue length / frame size) iterations and each one shortens the
\* queue by one frame.
C23_DrainTerminates ==
  [][ \A k \in Sessions :
        (Fired("audio", k) /\ SocketReady(Cur) /\ uncaught' = uncaught) =>
          LET n == VAD_SAMPLES_PER_FRAME(sess[k].cfg)
              queued == Len(audioQueue) + Len(pushed') - Len(pushed)
          IN  /\ n = Whole(FrameSamples(sess[k].cfg))
              /\ FrameSamples(sess[k].cfg) >= 1
              /\ Len(NewFrames) <= queued \div FrameSamples(sess[k].cfg)
              /\ Len(audioQueue') = queued - Len(NewFrames) * FrameSamples(sess[k].cfg) ]_vars

\* C23 witness: a session started with a saved configuration (another address
\* and threshold) has drained one frame of 512 samples and emptied the queue
C23_Witness ==
  /\ lastEvent = <<"audio", 1>>
  /\ sess[1].cfg.wsUrl = SecureUrl
  /\ sess[1].cfg.silenceThreshold = Num(3, 4)
  /\ Len(sentFrames) = 1
  /\ Len(sentFrames[1]) = 512
  /\ audioQueue = <<>>

\* the last direct call of a utility: its arguments and its outcome
UtilInput == util[2]
UtilInputRate == util[3]
UtilOutputRate == util[4]
UtilThrew == util[5]
UtilResult == util[6]

\* the last utility call was downsampleBuffer
Resampled == util[1] = "downsampleBuffer"

\* C24: when the output rate equals the input rate, downsampleBuffer returns
\* its input unchanged, for every buffer.
C24_SameRateIdentity ==
  (Resampled /\ UtilOutputRate = UtilInputRate) =>
    (~UtilThrew /\ UtilResult = UtilInput)

\* C24 witness: eight samples resampled from 44100 Hz to 44100 Hz came back as
\* they were
C24_Witness ==
  /\ Resampled
  /\ UtilInputRate = 44100
  /\ UtilOutputRate = 44100
  /\ Len(UtilInput) = 8
  /\ UtilResult = UtilInput

\* C25: when the input rate is lower than the output rate, downsampleBuffer
\* throws and produces no output, for every buffer.
C25_UpsamplingFails ==
  (Resampled /\ UtilInputRate < UtilOutputRate) =>
    (UtilThrew /\ UtilResult = <<>>)

\* C25 witness: eight samples at 8000 Hz resampled to 16000 Hz: the call threw
C25_Witness ==
  /\ Resampled
  /\ UtilInputRate = 8000
  /\ UtilOutputRate = 16000
  /\ Len(UtilInput) = 8
  /\ UtilThrew

\* the 0-based input indices output sample i averages: those in
\* [floor(i * ratio), floor((i + 1) * ratio)) that lie inside the buffer
Window(i, len, inRate, outRate) ==
  {j \in 0..(len - 1) : (i * inRate) \div outRate <= j /\ j < ((i + 1) * inRate) \div outRate}

RECURSIVE SumOver(_, _)
SumOver(buffer, window) ==
  IF window = {} THEN Whole(0)
  ELSE LET j == CHOOSE x \in window : TRUE
       IN  NumAdd(buffer[j + 1], SumOver(buffer, window \ {j}))

WindowMean(buffer, window) ==
  IF window = {} THEN Whole(0) ELSE NumDivInt(SumOver(buffer, window), Cardinality(window))

\* C26: when the input rate is greater than the output rate, downsampleBuffer
\* returns round(length / ratio) samples, ratio = inputRate / outputRate, and
\* output sample i is the mean of the input samples with index in
\* [floor(i * ratio), floor((i + 1) * ratio)) inside the buffer, 0 for an
\* empty window.
C26_BlockAverages ==
  (Resampled /\ UtilInputRate > UtilOutputRate) =>
    /\ ~UtilThrew
    /\ Len(UtilResult)
         = (2 * Len(UtilInput) * UtilOutputRate + UtilInputRate) \div (2 * UtilInputRate)
    /\ \A i \in 0..(Len(UtilResult) - 1) :
         UtilResult[i + 1]
           = WindowMean(UtilInput, Window(i, Len(UtilInput), UtilInputRate, UtilOutputRate))

\* C26 witness: the seven samples -2/4 .. 4/4 resampled from 44100 Hz to
\* 16000 Hz gave three samples, the means of samples 0-1, 2-4 and 5-6
C26_Witness ==
  /\ Resampled
  /\ UtilInputRate = 44100
  /\ UtilOutputRate = 16000
  /\ Len(UtilInput) = 7
  /\ UtilResult = <<Num(-3, 8), Num(1, 4), Num(7, 8)>>

\* the signed 16-bit value stored little-endian at sample i of an encoded buffer
Int16At(bytes, i) ==
  LET u == bytes[2 * i - 1] + 256 * bytes[2 * i]
  IN  IF u >= 32768 THEN u - 65536 ELSE u

\* C27: floatTo16BitPCM maps every sample, also outside [-1, 1], to a signed
\* 16-bit value without wraparound: -32768 for -1 and below, 32767 for 1 and
\* above, and between them the sample scaled by 32768 when negative and by
\* 32767 otherwise, truncated.
C27_EncodeClamps ==
  util[1] = "floatTo16BitPCM" =>
    /\ Len(UtilResult) = 2 * Len(UtilInput)
    /\ \A b \in 1..Len(UtilResult) : UtilResult[b] \in 0..255
    /\ \A i \in 1..Len(UtilInput) :
         LET x == UtilInput[i]
             v == Int16At(UtilResult, i)
         IN  /\ v \in -32768..32767
             /\ NumLeq(x, Whole(-1)) => v = -32768
             /\ NumLeq(Whole(1), x) => v = 32767
             /\ (NumLess(Whole(-1), x) /\ NumLess(x, Whole(0))) =>
                  v = -(((-x[1]) * 32768) \div x[2])
             /\ (NumLeq(Whole(0), x) /\ NumLess(x, Whole(1))) =>
                  v = (x[1] * 32767) \div x[2]

\* C27 witness: the samples 1.5, -2 and 1/3 were encoded as 32767, -32768 and
\* 10922
C27_Witness ==
  /\ util[1] = "floatTo16BitPCM"
  /\ UtilInput = <<Num(3, 2), Whole(-2), Num(1, 3)>>
  /\ Int16At(UtilResult, 1) = 32767
  /\ Int16At(UtilResult, 2) = -32768
  /\ Int16At(UtilResult, 3) = 10922

\* new WebSocket(url) has been called for session k, whether it returned a
\* socket or threw
ConnectionAttempted(k) == sess[k].ws # "none" \/ sess[k].failure = SocketCtorError.name

\* C28: on an https page, whenever a connection to a ws:// address has been
\* attempted, the warning about the insecure address had been shown before.
C28_WarnedBeforeConnecting ==
  \A k \in Sessions :
    (pageSecure /\ StartsWith(sess[k].cfg.wsUrl, WsScheme) /\ ConnectionAttempted(k)) => warned

\* C28: on an https page the user pressed start without ever opening the
\* settings dialog: the socket to ws://localhost:8765 is connecting and no
\* warning has been shown
C28_ConnectingUnwarned ==
  /\ pageSecure
  /\ ~warned
  /\ wsRef = 1
  /\ sess[1].ws = "CONNECTING"
  /\ sess[1].cfg.wsUrl = DefaultUrl
  /\ config = DEFAULT_CONFIG

\* the text of the system transcript a restarting message m appends
ResponseText(m) ==
  IF JSONParse(m).ok /\ ~StructuredThrows(JSONParse(m).val)
  THEN Trim(IF Truthy(Field(m, T_TEXT)) THEN Field(m, T_TEXT).s ELSE Field(m, T_MESSAGE).s)
  ELSE TrimmedRemainder(Trim(m), VOICE_FEEDBACK_PREFIX)

\* a system response: a structured response type with non-empty text, or a
\* legacy "VOICE FEEDBACK:" text
SystemResponse(m) ==
  \/ /\ TypeAmong(m, RESPONSE_TYPES)
     /\ ~StructuredThrows(JSONParse(m).val)
     /\ ResponseText(m) # <<>>
  \/ ~JSONParse(m).ok /\ StartsWith(Trim(m), VOICE_FEEDBACK_PREFIX)

\* C29 (in the handler): a system response received by session k stops that
\* session (its audio side is released and its socket closed and
\* dereferenced), starts the next session, which waits for the microphone
\* with the status connecting, and appends the system transcript once.
C29_RestartInHandler ==
  [][ \A m \in ProtocolMessages, k \in Sessions :
        (Received(m) /\ Fired("message", k) /\ SystemResponse(m) /\ wsRef = k) =>
          /\ sess'[k].stopped /\ sess'[k].ws \in {"CLOSING", "CLOSED"}
          /\ sess'[k].proc = "detached" /\ sess'[k].stream = "stopped" /\ sess'[k].ctx = "closed"
          /\ wsRef' = NULL /\ streamRef' = NULL /\ processorRef' = NULL /\ audioContextRef' = NULL
          /\ nSessions' = nSessions + 1
          /\ sess'[nSessions'].pc = "awaitMic"
          /\ status' = CONNECTING
          /\ transcripts' = Append(transcripts, <<ResponseText(m), "system">>) ]_vars

\* C29 (afterwards): once a session has been started by a system response,
\* the microphone being granted and the server accepting, the status
\* eventually is connected.
C29_RestartConnects ==
  \A k \in Sessions \ {1} : (sess[k].pc = "awaitMic") ~> (status = CONNECTED /\ wsRef = k)

\* C29: a system response stops the session and starts a new one in the same
\* handler, appending the system transcript once, and the new session
\* eventually reaches connected.
C29_RestartOnSystemResponse == C29_RestartInHandler /\ C29_RestartConnects

\* C29 witness: the second session, started by {"type":"AI_RESPONSE","text":"ok"},
\* is connected on its own open socket, and the transcript is there once
C29_Witness ==
  /\ nSessions = 2
  /\ status = CONNECTED
  /\ wsRef = 2
  /\ sess[2].ws = "OPEN"
  /\ sess[1].stopped
  /\ transcripts = <<<<<<"o", "k">>, "system">>>>

\* C30: a close event that follows an error leaves the status errored (the
\* socket's failure delivers the error and then the close), and a close
\* event makes the status disconnected only when the status was not errored
\* at its delivery: an errored status stays errored over a close event.
C30_CloseKeepsErrored ==
  [][ \A k \in Sessions :
        /\ Fired("error", k) =>
              /\ sess'[k].ws = "CLOSED"
              /\ \A i \in 2..Len(statusLog') : statusLog'[i] = ERROR
              /\ status' = ERROR
        /\ Fired("close", k) =>
              status' = (IF status = ERROR THEN ERROR ELSE DISCONNECTED) ]_vars

\* C30 witness: the socket of the session wsRef refers to has failed while
\* open, its error and close have been delivered, and the status is errored
C30_Witness ==
  /\ lastEvent[1] = "error"
  /\ wsRef # NULL /\ lastEvent[2] = wsRef
  /\ sess[wsRef].ws = "CLOSED"
  /\ status = ERROR
  /\ statusLog = <<CONNECTED, ERROR, ERROR>>

\* a text JSON.parse rejects, without a legacy prefix, containing "started"
StartedText(m) ==
  /\ ~JSONParse(m).ok
  /\ ~LegacyPrefixed(m)
  /\ Includes(Trim(m), W_STARTED)

\* C31 as stated: such a text sets the activity state to processing if it
\* contains "processing", else to transcribing if it contains
\* "transcription", else leaves it; no transcript is appended and the
\* connection state is unchanged.
C31_StartedByKeyword ==
  [][ \A m \in ProtocolMessages :
        (Received(m) /\ StartedText(m)) =>
          /\ processStatus' =
                IF Includes(Trim(m), W_PROCESSING) THEN "processing"
                ELSE IF Includes(Trim(m), W_TRANSCRIPTION) THEN "transcribing"
                ELSE processStatus
          /\ SessionUnchanged ]_vars

\* C31: the same with the two keywords looked for in the lower-cased text
\* ("started" itself is looked for in the text as received).
C31_StartedByKeywordAnyCase ==
  [][ \A m \in ProtocolMessages :
        (Received(m) /\ StartedText(m)) =>
          /\ processStatus' = StartedActivity(m, processStatus)
          /\ SessionUnchanged ]_vars

\* C31 witness: "transcription processing started", which has both keywords,
\* arrived as the second message of the session and the activity state is
\* processing, with no transcript and the status as it was
C31_Witness ==
  /\ lastMessage = ProtocolTexts.TextBothStarted
  /\ nMessages = 2
  /\ processStatus = "processing"
  /\ transcripts = <<>>
  /\ status = CONNECTING

\* C32: fed the same chunks at the same input rate under the same
\* configuration, with their sockets open from the same moment, the worker
\* has sent the same frames (same boundaries, same bytes) as the foreground
\* callback and holds the same queue.
C32_ChainsAgree ==
  /\ worker[3] = audioQueue
  /\ worker[4] = (IF nSessions = 0 THEN <<>> ELSE sess[1].sent)

\* C32 witness: at 48000 Hz with frames of 20 ms (320 samples) a frame has
\* been sent by both chains and both hold a remainder
C32_Witness ==
  /\ nSessions = 1
  /\ sess[1].inputRate = 48000
  /\ sess[1].cfg.frameDurationMs = Whole(20)
  /\ Len(sess[1].sent) >= 1 /\ Len(worker[4]) >= 1
  /\ audioQueue # <<>> /\ worker[3] # <<>>

\* C33: while a later session holds live audio resources, a close or error
\* event of the socket of an earlier, stopped session releases none of them
\* and leaves the status as it is.
C33_LateEventsHarmless ==
  [][ \A k \in Sessions :
        ( /\ Fired("close", k) \/ Fired("error", k)
          /\ sess[k].stopped
          /\ streamRef \notin {NULL, k}
          /\ sess[streamRef].stream = "live" ) =>
            /\ UNCHANGED <<streamRef, audioContextRef, processorRef, status>>
            /\ sess'[streamRef].stream = "live"
            /\ sess'[streamRef].ctx = sess[streamRef].ctx
            /\ sess'[streamRef].proc = sess[streamRef].proc ]_vars

\* C33: the close event of the stopped first session's socket has just been
\* delivered; the second session, whose socket is still connecting or open
\* and referenced, has lost its microphone, audio context and processor, and
\* the status is disconnected
C33_LateCloseTearsDownNewSession ==
  /\ lastEvent = <<"close", 1>>
  /\ sess[1].stopped
  /\ nSessions = 2
  /\ wsRef = 2
  /\ sess[2].ws \in {"CONNECTING", "OPEN"}
  /\ sess[2].stream = "stopped" /\ sess[2].ctx = "closed" /\ sess[2].proc = "detached"
  /\ streamRef = NULL /\ audioContextRef = NULL /\ processorRef = NULL
  /\ status = DISCONNECTED

\* C34: while the status is connected, wsRef references an open socket and
\* the audio callback of that session is installed.
C34_ConnectedHasOpenSocket ==
  status = CONNECTED =>
    /\ wsRef # NULL
    /\ sess[wsRef].ws = "OPEN"
    /\ processorRef = wsRef
    /\ sess[wsRef].proc = "installed"

\* C34: the status is connected, set by the greeting on the socket of the
\* first session, while wsRef references the socket of the second, which is
\* still connecting
C34_ConnectedOnConnectingSocket ==
  /\ status = CONNECTED
  /\ lastEvent = <<"message", 1>>
  /\ wsRef = 2
  /\ sess[2].ws = "CONNECTING"

\* C35: when the microphone is granted to a start that was stopped while it
\* waited (the stop is the task just before), no audio graph is built, no
\* socket is created and the status stays disconnected.
C35_StopCancelsPendingStart ==
  [][ \A k \in Sessions :
        ( /\ Fired("granted", k)
          /\ lastEvent = <<"stop", 0>>
          /\ sess[k].pc = "awaitMic" ) =>
            /\ sess'[k].stream # "live"
            /\ sess'[k].ctx # "running"
            /\ sess'[k].proc # "installed"
            /\ sess'[k].ws = "none"
            /\ wsRef' = wsRef
            /\ status' = DISCONNECTED ]_vars

\* C35: the only start was stopped while it waited for the microphone; the
\* permission has resolved, and with the status disconnected the microphone
\* is live, the processor installed and a socket connecting
C35_StoppedStartBuilds ==
  /\ nSessions = 1
  /\ lastEvent = <<"granted", 1>>
  /\ status = DISCONNECTED
  /\ sess[1].stream = "live" /\ sess[1].ctx = "running" /\ sess[1].proc = "installed"
  /\ sess[1].ws = "CONNECTING"
  /\ wsRef = 1

\* C36: while the status is errored or disconnected and no start is waiting
\* for the microphone, no stream, audio context or processor is held: the
\* refs are null and no session has live tracks, a running context or an
\* installed processor.
C36_IdleHoldsNoAudio ==
  (status \in {ERROR, DISCONNECTED} /\ \A k \in Sessions : sess[k].pc # "awaitMic") =>
    /\ streamRef = NULL /\ audioContextRef = NULL /\ processorRef = NULL
    /\ \A k \in Sessions :
         sess[k].stream # "live" /\ sess[k].ctx # "running" /\ sess[k].proc # "installed"

\* C36: the WebSocket constructor has thrown in the only start, after the
\* microphone was granted: the status is errored and the stream, the audio
\* context and the processor are live and still referenced
C36_FailedStartKeepsMicrophone ==
  /\ nSessions = 1
  /\ lastEvent = <<"granted", 1>>
  /\ sess[1].pc = "failed"
  /\ status = ERROR
  /\ streamRef = 1 /\ audioContextRef = 1 /\ processorRef = 1
  /\ sess[1].stream = "live" /\ sess[1].ctx = "running" /\ sess[1].proc = "installed"
  /\ sess[1].ws = "none"

\* C37: while the status is errored an error message is set.
C37_ErroredHasMessage == status = ERROR => errorMessage # NoMessage

\* C37: the first start failed and left its message; the socket of the
\* second session, started while that message was shown, has failed, and the
\* status is errored with no message
C37_ErroredWithoutMessage ==
  /\ nSessions = 2
  /\ sess[1].pc = "failed"
  /\ sess[2].errSeen # NoMessage
  /\ lastEvent = <<"error", 2>>
  /\ status = ERROR
  /\ errorMessage = NoMessage

\* C38: every start, by the user or by the message handler, runs with the
\* configuration saved last: the configuration the new session keeps is the
\* config state at the time of the start.
C38_StartUsesSavedConfig ==
  [][ nSessions' = nSessions + 1 => sess'[nSessions'].cfg = config ]_vars

\* C38: the user saved the address wss://h and started; the session started
\* by the handler on the system response runs with the default address
C38_RestartUsesDefaults ==
  /\ nSessions = 2
  /\ lastEvent = <<"message", 1>>
  /\ config.wsUrl = SecureUrl
  /\ sess[1].cfg = config
  /\ sess[2].pc = "awaitMic"
  /\ sess[2].cfg = DEFAULT_CONFIG
  /\ sess[2].cfg # config

\* C39: every transcript entry has a non-empty text.
C39_TranscriptTextNonEmpty ==
  \A i \in 1..Len(transcripts) : transcripts[i][1] # <<>>

\* C39: the legacy text "VOICE FEEDBACK:", which has nothing after its
\* prefix, has appended a system transcript with the empty text
C39_EmptyLegacyTranscript ==
  /\ lastMessage = ProtocolTexts.LegacyVoiceFeedbackEmpty
  /\ transcripts # <<>>
  /\ transcripts[Len(transcripts)] = <<<<>>, "system">>

====
